---- MODULE Spec2Model ----
(***************************************************************************)
(* megaSchedule: the shift generation and staff-assignment engine          *)
(* (ConfigurableScheduler) together with the schedule page's manual edit   *)
(* handlers.  One generation run is modelled step by step: the Shift       *)
(* Factory and the priority sort in one step, then for every shift in      *)
(* priority order a primary-fill step and an emergency-fill step, then     *)
(* the assembly of the Schedule.                                           *)
(*                                                                         *)
(* Numbers.  JavaScript numbers are modelled as exact rationals, kept as   *)
(* integers under a fixed scale: a weekly candidate score is carried       *)
(* multiplied by the number of active staff (its only denominator), a      *)
(* monthly candidate score and a monthly priority multiplied by 2.         *)
(* Instants (JS Date) are hours since 2023-12-01T00:00Z; a calendar date   *)
(* string "YYYY-MM-DD" is the number of days since 2023-12-01.             *)
(***************************************************************************)
EXTENDS Integers, Sequences, FiniteSets, TLC

(***************************************************************************)
(* Bounds of the model                                                     *)
(***************************************************************************)
NumStaff == 3
MaxReq == 2
MaxRuns == 2
MaxEdits == 2
MaxSaves == 3
MaxStoreOps == 2

(***************************************************************************)
(* State                                                                   *)
(***************************************************************************)
VARIABLES
  staff,            \* the roster handed to the scheduler (this.staff)
  config,           \* the ScheduleConfiguration (this.config)
  tz,               \* the browser's zone, hours ahead of UTC
  viewMode,         \* the page's view: "weekly" or "monthly"
  current,          \* the page's currentWeek / currentMonth instant
  pc,               \* where the generation run stands
  shifts,           \* the Shift array of the run in progress
  sortedShifts,     \* the processing order: indices into shifts
  pos,              \* position of the shift being filled in sortedShifts
  assignedCount,    \* the local counter of the shift being filled
  assignments,      \* staff id -> indices of the shifts committed so far
  schedule,         \* the page's schedule: {} or a one-element set
  previous,         \* the schedule returned by the run before the last
  store,            \* the schedules saved in localStorage
  now,              \* the reading of Date.now()
  rng,              \* the number of Math.random() draws so far
  runs,             \* generation runs started
  editsLeft         \* manual edits still explored

vars ==
  <<staff, config, tz, viewMode, current, pc, shifts, sortedShifts, pos,
    assignedCount, assignments, schedule, previous, store, now, rng, runs,
    editsLeft>>

inputs == <<staff, config, tz, viewMode, current>>

(***************************************************************************)
(* Small helpers                                                           *)
(***************************************************************************)
Range(s) == {s[i] : i \in DOMAIN s}

Min2(a, b) == IF a < b THEN a ELSE b

Max2(a, b) == IF a > b THEN a ELSE b

Abs(a) == IF a < 0 THEN -a ELSE a

Includes(s, x) == \E i \in DOMAIN s : s[i] = x

\* an array built by map(), as a sequence value
ArrayOf(f) == f \o <<>>

RECURSIVE FilterSeq(_, _)
FilterSeq(s, keep) ==
  IF s = <<>> THEN <<>>
  ELSE IF Head(s) \in keep THEN <<Head(s)>> \o FilterSeq(Tail(s), keep)
       ELSE FilterSeq(Tail(s), keep)

RECURSIVE IndexOf(_, _)
IndexOf(s, x) ==
  IF s = <<>> THEN 0
  ELSE IF Head(s) = x THEN 1
       ELSE LET r == IndexOf(Tail(s), x) IN IF r = 0 THEN 0 ELSE r + 1

(***************************************************************************)
(* Types of the repository                                                 *)
(***************************************************************************)
ShiftTypes == {"morning", "afternoon", "night", "day", "fullday"}

daysOfWeek ==
  <<"monday", "tuesday", "wednesday", "thursday", "friday", "saturday",
    "sunday">>

dayOrder == daysOfWeek

\* Array.prototype.indexOf on the day table, 0-based, -1 when absent
DayIndex(day) == IndexOf(dayOrder, day) - 1

(***************************************************************************)
(* Calendar: 2023-12-01 (a Friday) is day 0; the months are December 2023  *)
(* to March 2024                                                           *)
(***************************************************************************)
MonthLengths == <<31, 31, 29, 31>>

RECURSIVE MonthFirstDay(_)
MonthFirstDay(m) == IF m = 1 THEN 0 ELSE MonthFirstDay(m - 1) + MonthLengths[m - 1]

MonthOfDay(d) ==
  CHOOSE m \in DOMAIN MonthLengths :
    /\ MonthFirstDay(m) <= d
    /\ d < MonthFirstDay(m) + MonthLengths[m]

\* parseInt(dateString.split('-')[2])
DayOfMonth(d) == d - MonthFirstDay(MonthOfDay(d)) + 1

\* Date.prototype.getDay of a calendar day: 0 = Sunday
JsDay(d) == (d + 5) % 7

\* local calendar day of an instant in a zone tzo hours ahead of UTC
LocalDay(t, tzo) == (t + tzo) \div 24

\* new Date(year, month, day): local midnight of a calendar day
LocalMidnight(d, tzo) == d * 24 - tzo

\* getDayOfWeek reading getDay() from a table that starts on Monday
getDayOfWeek_MondayFirst(t, tzo) == daysOfWeek[JsDay(LocalDay(t, tzo)) + 1]

\* DateUtils.getDayOfWeek
getDayOfWeek(t, tzo) ==
  LET days == <<"sunday", "monday", "tuesday", "wednesday", "thursday",
                "friday", "saturday">>
  IN days[JsDay(LocalDay(t, tzo)) + 1]

\* DateUtils.formatDate: date.toISOString().split('T')[0], the UTC date
formatDate(t) == t \div 24

\* DateUtils.getMonthStart
getMonthStart(t, tzo) ==
  LocalMidnight(MonthFirstDay(MonthOfDay(LocalDay(t, tzo))), tzo)

\* DateUtils.getDaysInMonth
getDaysInMonth(t, tzo) == MonthLengths[MonthOfDay(LocalDay(t, tzo))]

\* DateUtils.getMonthDates: local midnights of the days of the month
getMonthDates(t, tzo) ==
  LET m == MonthOfDay(LocalDay(t, tzo))
      firstDay == LocalMidnight(MonthFirstDay(m), tzo)
      lastDay == LocalMidnight(MonthFirstDay(m) + MonthLengths[m] - 1, tzo)
  IN [i \in 1..((lastDay - firstDay) \div 24 + 1) |-> firstDay + (i - 1) * 24]

(***************************************************************************)
(* Inputs: the roster                                                      *)
(***************************************************************************)
StaffIds ==
  <<"s1", "s2", "s3", "s4", "s5", "s6", "s7", "s8", "s9", "s10", "s11",
    "s12">>

\* '2024-01-01', the placeholder date of the weekly scorer
getShiftDate == MonthFirstDay(2)

\* the holiday requests used in the rosters: 2024-01-01 and 2024-02-05
HolidayDates == {getShiftDate, MonthFirstDay(3) + 4}

\* an active member without skills, with preferences and holiday requests
PickyStaff(i) ==
  [id |-> StaffIds[i], isActive |-> TRUE, skills |-> <<>>,
   preferences |->
     [desiredHoursPerWeek |-> 8, preferredShifts |-> <<"night">>,
      preferredDaysOff |-> <<"monday">>, holidays |-> HolidayDates]]

\* an active member holding the skill "rn", without stated preferences
SkilledStaff(i) ==
  [id |-> StaffIds[i], isActive |-> TRUE, skills |-> <<"rn">>,
   preferences |->
     [desiredHoursPerWeek |-> 40, preferredShifts |-> <<>>,
      preferredDaysOff |-> <<>>, holidays |-> {}]]

\* an inactive member holding the skill "rn"
InactiveStaff(i) == [SkilledStaff(i) EXCEPT !.isActive = FALSE]

StaffChoices(i) == {PickyStaff(i), SkilledStaff(i), InactiveStaff(i)}

\* the rosters of n members
RECURSIVE RostersOf(_)
RostersOf(n) ==
  IF n = 0 THEN {<<>>}
  ELSE {Append(r, s) : r \in RostersOf(n - 1), s \in StaffChoices(n)}

Rosters == RostersOf(NumStaff)

\* the rosters of the monthly runs: the first member is the picky one
MonthlyRosters == {r \in Rosters : r[1] = PickyStaff(1)}

(***************************************************************************)
(* Inputs: the schedule configuration                                      *)
(***************************************************************************)
\* a DayScheduleConfig whose enabled kinds all carry the same requirements
Policy(enabled, skills, mn, mx) ==
  [enabledShiftTypes |-> enabled,
   shiftSkillRequirements |-> [k \in Range(enabled) |-> skills],
   shiftStaffRequirements |->
     [k \in Range(enabled) |-> [minimum |-> mn, maximum |-> mx]]]

ClosedPolicy == Policy(<<>>, <<>>, 1, 1)

\* a DayScheduleConfig that has no requirement entries for its kind
BarePolicy(enabled) ==
  [enabledShiftTypes |-> enabled,
   shiftSkillRequirements |-> [k \in {} |-> <<>>],
   shiftStaffRequirements |-> [k \in {} |-> [minimum |-> 1, maximum |-> 1]]]

WeekdayPolicies ==
  {ClosedPolicy} \cup
  {Policy(e, sk, mn, mx) :
     e \in {<<"morning">>, <<"afternoon", "night">>},
     sk \in {<<>>, <<"rn">>}, mn \in 1..MaxReq, mx \in {1, MaxReq}}

WeekendPolicies ==
  {ClosedPolicy, Policy(<<"fullday">>, <<>>, 1, 1),
   Policy(<<"morning">>, <<>>, 1, 1), BarePolicy(<<"day">>)}

OpenWeekdays == {"monday", "tuesday"}

Weekend == {"saturday", "sunday"}

\* defaultConfiguration of scheduleConfigStorage.ts (global part)
DefaultGlobal ==
  [maxConsecutiveShifts |-> 3, minRestHoursBetweenShifts |-> 12,
   maxHoursPerWeek |-> 40, requireSkillMatch |-> TRUE,
   minimumSkillsRequired |-> TRUE,
   weights |-> [preferredShift |-> 10, nonPreferredShift |-> -5,
                preferredDayOff |-> -15, matchingSkill |-> 5,
                needsMoreHours |-> 8]]

\* a tight global policy with soft skill matching
TightGlobal ==
  [maxConsecutiveShifts |-> 1, minRestHoursBetweenShifts |-> 12,
   maxHoursPerWeek |-> 16, requireSkillMatch |-> FALSE,
   minimumSkillsRequired |-> FALSE,
   weights |-> [preferredShift |-> 4, nonPreferredShift |-> -2,
                preferredDayOff |-> -3, matchingSkill |-> 2,
                needsMoreHours |-> 8]]

Globals == {DefaultGlobal, TightGlobal}

\* the default policy after the two penalty fields of the configuration page
\* were filled in with positive numbers
EditedGlobal ==
  [DefaultGlobal EXCEPT !.weights.nonPreferredShift = 5,
                        !.weights.preferredDayOff = 15]

\* dayConfigurations: a record over the days present in the configuration
DayConfigurations(wd, we, present) ==
  [d \in present |->
     IF d \in OpenWeekdays THEN wd
     ELSE IF d \in Weekend THEN we
     ELSE ClosedPolicy]

MakeConfig(g, wd, we, present) ==
  [maxConsecutiveShifts |-> g.maxConsecutiveShifts,
   minRestHoursBetweenShifts |-> g.minRestHoursBetweenShifts,
   maxHoursPerWeek |-> g.maxHoursPerWeek,
   requireSkillMatch |-> g.requireSkillMatch,
   minimumSkillsRequired |-> g.minimumSkillsRequired,
   weights |-> g.weights,
   dayConfigurations |-> DayConfigurations(wd, we, present)]

AllDays == Range(daysOfWeek)

\* the zones of the browser: hours ahead of UTC
TimeZones == {0, 1}

Input(r, cfg, tzo, mode) ==
  [staff |-> r, config |-> cfg, tz |-> tzo, viewMode |-> mode]

\* weekly runs: every staffing bound on the weekdays under both global
\* policies, and the minimum-1 weekday policies next to an open weekend
WeeklyConfigs ==
  {MakeConfig(g, wd, ClosedPolicy, AllDays) :
     g \in Globals, wd \in WeekdayPolicies}
  \cup
  {MakeConfig(DefaultGlobal, wd, we, AllDays) :
     wd \in {p \in WeekdayPolicies :
               \A k \in DOMAIN p.shiftStaffRequirements :
                 p.shiftStaffRequirements[k].minimum = 1},
     we \in WeekendPolicies \ {ClosedPolicy}}

WeeklyInputs ==
  {Input(r, cfg, 0, "weekly") : r \in Rosters, cfg \in WeeklyConfigs}

\* monthly runs: four weekday policies, weekend closed or open; the default
\* global policy with an open weekend in both zones
MonthlyWeekdayPolicies ==
  {ClosedPolicy,
   Policy(<<"morning">>, <<"rn">>, 1, MaxReq),
   Policy(<<"afternoon", "night">>, <<>>, MaxReq, 1),
   Policy(<<"afternoon", "night">>, <<"rn">>, MaxReq, MaxReq)}

MonthlyConfigs ==
  {MakeConfig(g, wd, we, AllDays) :
     g \in Globals, wd \in MonthlyWeekdayPolicies,
     we \in {ClosedPolicy, Policy(<<"fullday">>, <<>>, 1, 1)}}

MonthlyInputs ==
  {Input(r, cfg, 0, "monthly") : r \in MonthlyRosters, cfg \in MonthlyConfigs}
  \cup
  {Input(r, MakeConfig(DefaultGlobal, wd, Policy(<<"fullday">>, <<>>, 1, 1),
                       AllDays), tzo, "monthly") :
     r \in MonthlyRosters, wd \in MonthlyWeekdayPolicies, tzo \in TimeZones}

\* configurations without an entry for Sunday
BrokenInputs ==
  {Input(r, MakeConfig(DefaultGlobal, wd, ClosedPolicy, AllDays \ {"sunday"}),
         0, mode) :
     r \in Rosters,
     wd \in {Policy(<<"morning">>, <<>>, 1, 1),
             Policy(<<"morning">>, <<>>, MaxReq, 1)},
     mode \in {"weekly", "monthly"}}

\* a generous roster: twelve active members without stated preferences
GenerousRoster == [i \in DOMAIN StaffIds |-> SkilledStaff(i)]

\* every day of the week offers morning, afternoon and night
FullWeekPolicy(mn, mx) ==
  Policy(<<"morning", "afternoon", "night">>, <<>>, mn, mx)

FullWeekConfig(mn, mx) ==
  [maxConsecutiveShifts |-> DefaultGlobal.maxConsecutiveShifts,
   minRestHoursBetweenShifts |-> DefaultGlobal.minRestHoursBetweenShifts,
   maxHoursPerWeek |-> DefaultGlobal.maxHoursPerWeek,
   requireSkillMatch |-> DefaultGlobal.requireSkillMatch,
   minimumSkillsRequired |-> DefaultGlobal.minimumSkillsRequired,
   weights |-> DefaultGlobal.weights,
   dayConfigurations |-> [d \in AllDays |-> FullWeekPolicy(mn, mx)]]

\* weekly runs of the generous roster over 21 shifts, under staffing bounds
\* whose minimum demand fits in the roster: 1..1, 2..2, 1..2 and the
\* factory's default 2..4
GenerousInputs ==
  {Input(GenerousRoster, FullWeekConfig(b[1], b[2]), 0, "weekly") :
     b \in {<<1, 1>>, <<2, 2>>, <<1, 2>>, <<2, 4>>}}

\* runs under the edited weights: a morning shift on Monday and Tuesday
EditedInputs ==
  {Input(r, MakeConfig(EditedGlobal, Policy(<<"morning">>, <<>>, 1, 1),
                       ClosedPolicy, AllDays), 0, mode) :
     r \in MonthlyRosters, mode \in {"weekly", "monthly"}}

Inputs ==
  WeeklyInputs \cup MonthlyInputs \cup BrokenInputs \cup GenerousInputs
  \cup EditedInputs

(***************************************************************************)
(* Shift Factory (generateSchedule / generateMonthlySchedule)              *)
(***************************************************************************)
getShiftStartTime(shiftType) ==
  CASE shiftType = "morning" -> "07:00"
    [] shiftType = "afternoon" -> "15:00"
    [] shiftType = "night" -> "23:00"
    [] shiftType = "day" -> "07:00"
    [] shiftType = "fullday" -> "00:00"
    [] OTHER -> "07:00"

getShiftEndTime(shiftType) ==
  CASE shiftType = "morning" -> "15:00"
    [] shiftType = "afternoon" -> "23:00"
    [] shiftType = "night" -> "07:00"
    [] shiftType = "day" -> "19:00"
    [] shiftType = "fullday" -> "23:59"
    [] OTHER -> "15:00"

\* dayConfig.shiftSkillRequirements[shiftType] || []
SkillRequirementsOf(dayConfig, shiftType) ==
  IF shiftType \in DOMAIN dayConfig.shiftSkillRequirements
  THEN dayConfig.shiftSkillRequirements[shiftType]
  ELSE <<>>

\* dayConfig.shiftStaffRequirements[shiftType] || { minimum: 2, maximum: 4 }
StaffRequirementsOf(dayConfig, shiftType) ==
  IF shiftType \in DOMAIN dayConfig.shiftStaffRequirements
  THEN dayConfig.shiftStaffRequirements[shiftType]
  ELSE [minimum |-> 2, maximum |-> 4]

\* Math.random(): the k-th value drawn after r earlier draws
RandomValue(r, k) == r + k

\* the shift objects pushed for one day of the week (weekly generation)
WeeklyDayShifts(cfg, day, clock, r) ==
  LET dayConfig == cfg.dayConfigurations[day]
      enabled == dayConfig.enabledShiftTypes
  IN [j \in 1..Len(enabled) |->
        [id |-> <<day, enabled[j], clock, RandomValue(r, j)>>,
         type |-> enabled[j],
         day |-> day,
         startTime |-> getShiftStartTime(enabled[j]),
         endTime |-> getShiftEndTime(enabled[j]),
         requiredSkills |-> SkillRequirementsOf(dayConfig, enabled[j]),
         minimumStaff |-> StaffRequirementsOf(dayConfig, enabled[j]).minimum,
         maximumStaff |-> StaffRequirementsOf(dayConfig, enabled[j]).maximum,
         assignedStaff |-> <<>>]]

\* daysOfWeek.forEach(...) of generateSchedule, days i..7
RECURSIVE WeeklyShiftsFrom(_, _, _, _)
WeeklyShiftsFrom(cfg, i, clock, r) ==
  IF i > Len(daysOfWeek) THEN <<>>
  ELSE LET today == WeeklyDayShifts(cfg, daysOfWeek[i], clock, r)
       IN today \o WeeklyShiftsFrom(cfg, i + 1, clock, r + Len(today))

WeeklyShifts(cfg, clock, r) == WeeklyShiftsFrom(cfg, 1, clock, r)

\* the shift objects pushed for one date (monthly generation)
MonthlyDateShifts(cfg, date, tzo, clock, r) ==
  LET dayOfWeek == getDayOfWeek(date, tzo)
      dayConfig == cfg.dayConfigurations[dayOfWeek]
      dateString == formatDate(date)
      enabled == dayConfig.enabledShiftTypes
  IN [j \in 1..Len(enabled) |->
        [id |-> <<dateString, enabled[j], clock, RandomValue(r, j)>>,
         type |-> enabled[j],
         day |-> dayOfWeek,
         date |-> dateString,
         startTime |-> getShiftStartTime(enabled[j]),
         endTime |-> getShiftEndTime(enabled[j]),
         requiredSkills |-> SkillRequirementsOf(dayConfig, enabled[j]),
         minimumStaff |-> StaffRequirementsOf(dayConfig, enabled[j]).minimum,
         maximumStaff |-> StaffRequirementsOf(dayConfig, enabled[j]).maximum,
         assignedStaff |-> <<>>]]

\* monthDates.forEach(...) of generateMonthlySchedule, dates i..last
RECURSIVE MonthlyShiftsFrom(_, _, _, _, _, _)
MonthlyShiftsFrom(cfg, dates, i, tzo, clock, r) ==
  IF i > Len(dates) THEN <<>>
  ELSE LET today == MonthlyDateShifts(cfg, dates[i], tzo, clock, r)
       IN today \o
          MonthlyShiftsFrom(cfg, dates, i + 1, tzo, clock, r + Len(today))

MonthlyShifts(cfg, monthDate, tzo, clock, r) ==
  MonthlyShiftsFrom(cfg, getMonthDates(monthDate, tzo), 1, tzo, clock, r)

\* dayConfig is undefined for some day the factory visits: reading
\* dayConfig.enabledShiftTypes throws a TypeError
WeeklyThrows(cfg) ==
  \E i \in DOMAIN daysOfWeek : daysOfWeek[i] \notin DOMAIN cfg.dayConfigurations

MonthlyThrows(cfg, monthDate, tzo) ==
  LET dates == getMonthDates(monthDate, tzo)
  IN \E i \in DOMAIN dates :
       getDayOfWeek(dates[i], tzo) \notin DOMAIN cfg.dayConfigurations

(***************************************************************************)
(* Priority Ranker                                                         *)
(***************************************************************************)
ActiveCount(roster) == Cardinality({i \in DOMAIN roster : roster[i].isActive})

\* shift.requiredSkills.some(skill => s.skills.includes(skill))
HasRequiredSkill(s, shift) ==
  \E k \in DOMAIN shift.requiredSkills : Includes(s.skills, shift.requiredSkills[k])

shiftTypePriority(shiftType) ==
  CASE shiftType = "fullday" -> 30
    [] shiftType = "night" -> 25
    [] shiftType = "day" -> 15
    [] shiftType = "morning" -> 10
    [] shiftType = "afternoon" -> 5
    [] OTHER -> 0

\* the priority components without the skill term
BasePriority_NoSkillTerm(roster, shift) ==
  LET ratioPart ==
        IF 2 * shift.maximumStaff < 3 * Max2(shift.minimumStaff, 1)
        THEN 20 ELSE 0
      weekendPart ==
        IF shift.day = "saturday" \/ shift.day = "sunday" THEN 15 ELSE 0
  IN ratioPart + shiftTypePriority(shift.type) + weekendPart
     + shift.minimumStaff * 8

\* the components shared by the weekly and the monthly getPriorityScore
BasePriority(roster, shift) ==
  LET staffWithSkills ==
        Cardinality({i \in DOMAIN roster :
                       roster[i].isActive /\ HasRequiredSkill(roster[i], shift)})
      skillPart ==
        IF Len(shift.requiredSkills) > 0
        THEN Len(shift.requiredSkills) * 20
             + (IF staffWithSkills < shift.minimumStaff * 2 THEN 25 ELSE 0)
        ELSE 0
      \* maximumStaff / Math.max(minimumStaff, 1) < 1.5
      ratioPart ==
        IF 2 * shift.maximumStaff < 3 * Max2(shift.minimumStaff, 1)
        THEN 20 ELSE 0
      weekendPart ==
        IF shift.day = "saturday" \/ shift.day = "sunday" THEN 15 ELSE 0
  IN skillPart + ratioPart + shiftTypePriority(shift.type) + weekendPart
     + shift.minimumStaff * 8

\* the weekly priority with the pool counted over all active staff
getPriorityScore_PoolOfAllActive(roster, cfg, shift) ==
  BasePriority(roster, shift)
  + (IF 2 * ActiveCount(roster) < 3 * shift.minimumStaff THEN 30 ELSE 0)

\* getPriorityScore of autoAssignStaff
getPriorityScore(roster, cfg, shift) ==
  LET availableStaff ==
        Cardinality({i \in DOMAIN roster :
          /\ roster[i].isActive
          /\ ~(/\ cfg.requireSkillMatch
               /\ Len(shift.requiredSkills) > 0
               /\ cfg.minimumSkillsRequired
               /\ ~HasRequiredSkill(roster[i], shift))})
      \* availableStaff < minimumStaff * 1.5
      poolPart == IF 2 * availableStaff < 3 * shift.minimumStaff THEN 30 ELSE 0
  IN BasePriority(roster, shift) + poolPart

\* getPriorityScore of autoAssignMonthlyStaff, multiplied by 2
getMonthlyPriorityScore(roster, shift) ==
  2 * BasePriority(roster, shift)
  + (IF "date" \in DOMAIN shift
     THEN Max2(0, 32 - DayOfMonth(shift.date)) ELSE 0)

\* insertion in front of the indices of equal key: an unstable order
RECURSIVE InsertByKey_BeforeEquals(_, _, _)
InsertByKey_BeforeEquals(sortedIdx, i, keys) ==
  IF sortedIdx = <<>> THEN <<i>>
  ELSE IF keys[Head(sortedIdx)] > keys[i]
       THEN <<Head(sortedIdx)>>
            \o InsertByKey_BeforeEquals(Tail(sortedIdx), i, keys)
       ELSE <<i>> \o sortedIdx

\* insert index i behind every index whose key is at least keys[i]
RECURSIVE InsertByKey(_, _, _)
InsertByKey(sortedIdx, i, keys) ==
  IF sortedIdx = <<>> THEN <<i>>
  ELSE IF keys[Head(sortedIdx)] >= keys[i]
       THEN <<Head(sortedIdx)>> \o InsertByKey(Tail(sortedIdx), i, keys)
       ELSE <<i>> \o sortedIdx

\* [...xs].sort((a, b) => key(b) - key(a)): the stable descending order of
\* the indices 1..n of a sequence of keys
RECURSIVE SortDescFrom(_, _)
SortDescFrom(keys, n) ==
  IF n = 0 THEN <<>> ELSE InsertByKey(SortDescFrom(keys, n - 1), n, keys)

SortDesc(keys) == SortDescFrom(keys, Len(keys))

(***************************************************************************)
(* Constraint Evaluator                                                    *)
(***************************************************************************)
\* times[shiftType] || 7: the 0 of fullday is falsy and yields 7
getShiftStartHour(shiftType) ==
  CASE shiftType = "morning" -> 7
    [] shiftType = "afternoon" -> 15
    [] shiftType = "night" -> 23
    [] shiftType = "day" -> 7
    [] shiftType = "fullday" -> 7
    [] OTHER -> 7

getShiftEndHour(shiftType) ==
  CASE shiftType = "morning" -> 15
    [] shiftType = "afternoon" -> 23
    [] shiftType = "night" -> 7
    [] shiftType = "day" -> 19
    [] shiftType = "fullday" -> 24
    [] OTHER -> 15

getShiftHours(shiftType) ==
  CASE shiftType = "morning" -> 8
    [] shiftType = "afternoon" -> 8
    [] shiftType = "night" -> 12
    [] shiftType = "day" -> 12
    [] shiftType = "fullday" -> 24
    [] OTHER -> 8

RECURSIVE calculateWeeklyHours(_)
calculateWeeklyHours(currentAssignments) ==
  IF currentAssignments = <<>> THEN 0
  ELSE getShiftHours(Head(currentAssignments).type)
       + calculateWeeklyHours(Tail(currentAssignments))

calculateMonthlyHours(currentAssignments) ==
  calculateWeeklyHours(currentAssignments)

\* the worked days of the week, as 0-based indices of dayOrder
WorkedDayIndices(currentAssignments) ==
  {DayIndex(currentAssignments[k].day) : k \in DOMAIN currentAssignments}

\* number of worked days directly before index i (the backward loop)
RECURSIVE RunBefore(_, _)
RunBefore(worked, i) ==
  IF i - 1 >= 0 /\ (i - 1) \in worked THEN 1 + RunBefore(worked, i - 1) ELSE 0

\* number of worked days directly after index i (the forward loop)
RECURSIVE RunAfter(_, _)
RunAfter(worked, i) ==
  IF i + 1 < Len(dayOrder) /\ (i + 1) \in worked
  THEN 1 + RunAfter(worked, i + 1) ELSE 0

violatesMaxConsecutive(cfg, shift, currentAssignments) ==
  IF Len(currentAssignments) = 0 THEN FALSE
  ELSE LET worked == WorkedDayIndices(currentAssignments)
           shiftDayIndex == DayIndex(shift.day)
           consecutiveCount ==
             1 + RunBefore(worked, shiftDayIndex) + RunAfter(worked, shiftDayIndex)
       IN consecutiveCount > cfg.maxConsecutiveShifts

violatesMaxHours(cfg, shift, currentAssignments) ==
  calculateWeeklyHours(currentAssignments) + getShiftHours(shift.type)
    > cfg.maxHoursPerWeek

\* the verdict of the loop body of violatesRestTime for one assignment
RestConflict(cfg, shift, assignment) ==
  LET shiftDayIndex == DayIndex(shift.day)
      shiftStartHour == getShiftStartHour(shift.type)
      shiftEndHour == getShiftEndHour(shift.type)
      assignmentDayIndex == DayIndex(assignment.day)
      assignmentStartHour == getShiftStartHour(assignment.type)
      assignmentEndHour == getShiftEndHour(assignment.type)
      dayDiff == Abs(shiftDayIndex - assignmentDayIndex)
      timeBetweenShifts ==
        IF shiftDayIndex > assignmentDayIndex
        THEN shiftStartHour + (24 - assignmentEndHour)
        ELSE assignmentStartHour + (24 - shiftEndHour)
      overlap ==
        ~(shiftEndHour <= assignmentStartHour
          \/ assignmentEndHour <= shiftStartHour)
  IN IF dayDiff = 1 THEN timeBetweenShifts < cfg.minRestHoursBetweenShifts
     ELSE IF dayDiff = 0 THEN overlap
     ELSE FALSE

violatesRestTime(cfg, shift, currentAssignments) ==
  IF Len(currentAssignments) = 0 THEN FALSE
  ELSE \E k \in DOMAIN currentAssignments :
         RestConflict(cfg, shift, currentAssignments[k])

\* the penalties with the hour-cap violation alone counted
calculateConstraintPenalties_HoursOnly(cfg, shift, currentAssignments) ==
  IF violatesMaxHours(cfg, shift, currentAssignments) THEN 20 ELSE 0

calculateConstraintPenalties(cfg, shift, currentAssignments) ==
  (IF violatesMaxConsecutive(cfg, shift, currentAssignments) THEN 10 ELSE 0)
  + (IF violatesRestTime(cfg, shift, currentAssignments) THEN 15 ELSE 0)
  + (IF violatesMaxHours(cfg, shift, currentAssignments) THEN 20 ELSE 0)

(***************************************************************************)
(* Candidate Scorer                                                        *)
(***************************************************************************)
\* the preference and skill terms shared by both scorers
PreferenceTerms(cfg, s, shift) ==
  LET prefs == s.preferences
      preferredPart ==
        IF Includes(prefs.preferredShifts, shift.type)
        THEN cfg.weights.preferredShift
        ELSE IF Len(prefs.preferredShifts) > 0
             THEN Max2(cfg.weights.nonPreferredShift, -3)
             ELSE 0
      dayOffPart ==
        IF Includes(prefs.preferredDaysOff, shift.day)
        THEN Max2(cfg.weights.preferredDayOff, -5)
        ELSE 0
      matchingSkills ==
        Cardinality({k \in DOMAIN shift.requiredSkills :
                       Includes(s.skills, shift.requiredSkills[k])})
      skillPart ==
        IF Len(shift.requiredSkills) > 0
        THEN IF matchingSkills > 0
             THEN matchingSkills * cfg.weights.matchingSkill
             ELSE -5
        ELSE 0
  IN preferredPart + dayOffPart + skillPart

\* the weekly workload term without its caps
WeeklyWorkloadTerm_Uncapped(s, currentAssignments) ==
  2 * (s.preferences.desiredHoursPerWeek
       - calculateWeeklyHours(currentAssignments))

\* the workload term of calculateStaffScore
WeeklyWorkloadTerm(s, currentAssignments) ==
  LET currentHours == calculateWeeklyHours(currentAssignments)
      targetHours == s.preferences.desiredHoursPerWeek
  IN IF currentHours < targetHours
     THEN Min2((targetHours - currentHours) * 2, 20)
     ELSE IF currentHours > targetHours
          THEN -Min2(currentHours - targetHours, 10)
          ELSE 0

\* the distribution term of calculateStaffScore, multiplied by
\* n = Math.max(active staff, 1); targetShiftsPerStaff = totalShifts / n
WeeklyDistributionTermN(roster, currentAssignments) ==
  LET n == Max2(ActiveCount(roster), 1)
      \* this.staff.length > 0 ? Math.ceil(7 * 2.5) : 0
      totalShifts == IF Len(roster) > 0 THEN 18 ELSE 0
      count == Len(currentAssignments)
  IN IF count * n < totalShifts
     THEN Min2((totalShifts - count * n) * 3, 15 * n)
     ELSE IF count * n > totalShifts
          THEN -Min2((count * n - totalShifts) * 2, 10 * n)
          ELSE 0

\* the holiday penalty of calculateStaffScore
WeeklyHolidayTerm(s) ==
  IF getShiftDate \in s.preferences.holidays THEN 30 ELSE 0

\* calculateStaffScore before the constraint penalties, multiplied by n
WeeklyScoreBeforePenalties(roster, cfg, s, shift, currentAssignments) ==
  LET n == Max2(ActiveCount(roster), 1)
  IN n * (50 + PreferenceTerms(cfg, s, shift)
          + WeeklyWorkloadTerm(s, currentAssignments) - WeeklyHolidayTerm(s))
     + WeeklyDistributionTermN(roster, currentAssignments)

\* calculateStaffScore, multiplied by n = Math.max(active staff, 1)
calculateStaffScore(roster, cfg, s, shift, currentAssignments) ==
  WeeklyScoreBeforePenalties(roster, cfg, s, shift, currentAssignments)
  - Max2(ActiveCount(roster), 1)
    * calculateConstraintPenalties(cfg, shift, currentAssignments)

\* the workload term of calculateMonthlyStaffScore: targetMonthlyHours =
\* desired * 4.33, compared at 0.8, 1 and 1.2
MonthlyWorkloadTerm(s, currentAssignments) ==
  LET monthlyHours == calculateMonthlyHours(currentAssignments)
      desired == s.preferences.desiredHoursPerWeek
  IN IF monthlyHours * 1000 < desired * 3464 THEN 25
     ELSE IF monthlyHours * 100 < desired * 433 THEN 15
     ELSE IF monthlyHours * 1000 > desired * 5196 THEN -15
     ELSE 0

\* the distribution term of calculateMonthlyStaffScore:
\* averageMonthlyAssignments = allShifts.length / n, compared at 0.8 and 1.2
MonthlyDistributionTerm(roster, currentAssignments, allShifts) ==
  LET n == Max2(ActiveCount(roster), 1)
      monthlyAssignments == Len(currentAssignments)
  IN IF monthlyAssignments * n * 10 < Len(allShifts) * 8 THEN 20
     ELSE IF monthlyAssignments * n * 10 > Len(allShifts) * 12 THEN -10
     ELSE 0

\* the holiday penalty of calculateMonthlyStaffScore
MonthlyHolidayTerm(s, shift) ==
  IF "date" \in DOMAIN shift /\ shift.date \in s.preferences.holidays
  THEN 30 ELSE 0

\* calculateMonthlyStaffScore before the constraint penalties, multiplied by 2
MonthlyScoreBeforePenalties(roster, cfg, s, shift, currentAssignments, allShifts) ==
  2 * (50 + PreferenceTerms(cfg, s, shift)
       + MonthlyWorkloadTerm(s, currentAssignments)
       + MonthlyDistributionTerm(roster, currentAssignments, allShifts)
       - MonthlyHolidayTerm(s, shift))

\* calculateMonthlyStaffScore, multiplied by 2
calculateMonthlyStaffScore(roster, cfg, s, shift, currentAssignments, allShifts) ==
  MonthlyScoreBeforePenalties(roster, cfg, s, shift, currentAssignments,
                              allShifts)
  - calculateConstraintPenalties(cfg, shift, currentAssignments)

(***************************************************************************)
(* Assignment Solver: the loops of autoAssignStaff / autoAssignMonthlyStaff *)
(***************************************************************************)
\* the candidate filter with the weekly hour cap as a hard rule
RECURSIVE CandidatesFrom_WithinHourCap(_, _, _)
CandidatesFrom_WithinHourCap(roster, shift, i) ==
  IF i > Len(roster) THEN <<>>
  ELSE LET id == roster[i].id
           mine == IF id \in DOMAIN assignments
                   THEN [k \in DOMAIN assignments[id] |->
                           shifts[assignments[id][k]]]
                   ELSE <<>>
       IN IF /\ roster[i].isActive
             /\ ~Includes(shift.assignedStaff, id)
             /\ ~violatesMaxHours(config, shift, mine)
          THEN <<i>> \o CandidatesFrom_WithinHourCap(roster, shift, i + 1)
          ELSE CandidatesFrom_WithinHourCap(roster, shift, i + 1)

\* the candidate filter with one shift per staff member and day
RECURSIVE CandidatesFrom_OneShiftPerDay(_, _, _)
CandidatesFrom_OneShiftPerDay(roster, shift, i) ==
  IF i > Len(roster) THEN <<>>
  ELSE LET id == roster[i].id
           busy == /\ id \in DOMAIN assignments
                   /\ \E k \in DOMAIN assignments[id] :
                        shifts[assignments[id][k]].day = shift.day
       IN IF roster[i].isActive /\ ~Includes(shift.assignedStaff, id) /\ ~busy
          THEN <<i>> \o CandidatesFrom_OneShiftPerDay(roster, shift, i + 1)
          ELSE CandidatesFrom_OneShiftPerDay(roster, shift, i + 1)

\* the candidate filter without the isActive test
RECURSIVE CandidatesFrom_InactiveToo(_, _, _)
CandidatesFrom_InactiveToo(roster, shift, i) ==
  IF i > Len(roster) THEN <<>>
  ELSE IF ~Includes(shift.assignedStaff, roster[i].id)
       THEN <<i>> \o CandidatesFrom_InactiveToo(roster, shift, i + 1)
       ELSE CandidatesFrom_InactiveToo(roster, shift, i + 1)

\* the candidate filter with skill matching as a hard rule
RECURSIVE CandidatesFrom_SkillMatched(_, _, _)
CandidatesFrom_SkillMatched(roster, shift, i) ==
  IF i > Len(roster) THEN <<>>
  ELSE IF /\ roster[i].isActive
          /\ ~Includes(shift.assignedStaff, roster[i].id)
          /\ ~(/\ config.requireSkillMatch
               /\ config.minimumSkillsRequired
               /\ Len(shift.requiredSkills) > 0
               /\ ~HasRequiredSkill(roster[i], shift))
       THEN <<i>> \o CandidatesFrom_SkillMatched(roster, shift, i + 1)
       ELSE CandidatesFrom_SkillMatched(roster, shift, i + 1)

\* the roster positions of allActiveCandidates, in roster order
RECURSIVE CandidatesFrom(_, _, _)
CandidatesFrom(roster, shift, i) ==
  IF i > Len(roster) THEN <<>>
  ELSE IF roster[i].isActive /\ ~Includes(shift.assignedStaff, roster[i].id)
       THEN <<i>> \o CandidatesFrom(roster, shift, i + 1)
       ELSE CandidatesFrom(roster, shift, i + 1)

allActiveCandidates(roster, shift) == CandidatesFrom(roster, shift, 1)

\* emergencyStaff: the same filter, evaluated after primary fill
emergencyStaff(roster, shift) == CandidatesFrom(roster, shift, 1)

\* the Shift objects a staff member's running list refers to
AssignmentsOf(assign, allShifts, id) ==
  IF id \in DOMAIN assign
  THEN [k \in DOMAIN assign[id] |-> allShifts[assign[id][k]]]
  ELSE <<>>

\* the scored list with every entry referring to the best candidate
ScoredCandidates_BestRepeated(cands, scores) ==
  LET order == SortDesc(scores)
  IN [k \in DOMAIN order |->
        [staff |-> cands[order[1]], score |-> scores[order[1]]]]

\* the scored list with a Math.random() perturbation added to every score
ScoredCandidates_Perturbed(cands, scores) ==
  LET perturbed == ArrayOf([k \in DOMAIN scores |->
                              scores[k] + (RandomValue(rng, k) % 3)])
      order == SortDesc(perturbed)
  IN [k \in DOMAIN order |->
        [staff |-> cands[order[k]], score |-> perturbed[order[k]]]]

\* scoredCandidates.sort((a, b) => b.score - a.score): the candidates (roster
\* positions) with their scores, in descending score order
ScoredCandidates(cands, scores) ==
  LET order == SortDesc(scores)
  IN [k \in DOMAIN order |->
        [staff |-> cands[order[k]], score |-> scores[order[k]]]]

\* the primary loop without the break on a negative score
RECURSIVE PrimaryTake_FillToMaximum(_, _, _, _)
PrimaryTake_FillToMaximum(scored, k, shift, count) ==
  IF k > Len(scored) THEN count
  ELSE IF count >= shift.maximumStaff THEN count
  ELSE PrimaryTake_FillToMaximum(scored, k + 1, shift, count + 1)

\* the primary loop: how many candidates are appended
\* a first pass that is selective from the first candidate on
RECURSIVE PrimaryTake_AlwaysSelective(_, _, _, _)
PrimaryTake_AlwaysSelective(scored, k, shift, count) ==
  IF k > Len(scored) THEN count
  ELSE IF count >= shift.maximumStaff THEN count
  ELSE IF scored[k].score < 0 THEN count
  ELSE PrimaryTake_AlwaysSelective(scored, k + 1, shift, count + 1)

RECURSIVE PrimaryTake(_, _, _, _)
PrimaryTake(scored, k, shift, count) ==
  IF k > Len(scored) THEN count
  ELSE IF count >= shift.maximumStaff THEN count
  ELSE IF count >= shift.minimumStaff /\ scored[k].score < 0 THEN count
  ELSE PrimaryTake(scored, k + 1, shift, count + 1)

\* the emergency loop: how many of emergencyStaff are appended
RECURSIVE EmergencyTake(_, _, _, _)
EmergencyTake(pool, k, shift, count) ==
  IF k > Len(pool) THEN 0
  ELSE IF count >= shift.minimumStaff THEN 0
  ELSE IF count >= shift.maximumStaff THEN 0
  ELSE 1 + EmergencyTake(pool, k + 1, shift, count + 1)

\* the running lists updated for the first assignee of a shift only
PushAll_FirstOnly(assign, ids, shiftIndex) ==
  IF ids = <<>> \/ Head(ids) \notin DOMAIN assign THEN assign
  ELSE [assign EXCEPT ![Head(ids)] = Append(@, shiftIndex)]

\* assignments.get(id)?.push(shift) for every id of a list
RECURSIVE PushAll(_, _, _)
PushAll(assign, ids, shiftIndex) ==
  IF ids = <<>> THEN assign
  ELSE LET id == Head(ids)
           next == IF id \in DOMAIN assign
                   THEN [assign EXCEPT ![id] = Append(@, shiftIndex)]
                   ELSE assign
       IN PushAll(next, Tail(ids), shiftIndex)

(***************************************************************************)
(* Schedule store (ScheduleStorage.saveSchedule)                           *)
(***************************************************************************)
\* new Date(x) for x an ISO instant <<"instant", t>> or a date <<"date", d>>
ParseDate(x) == IF x[1] = "instant" THEN x[2] ELSE x[2] * 24

\* the 'YYYY-MM-01' of a date string
FirstOfMonth(d) == MonthFirstDay(MonthOfDay(d))

\* the date a stored schedule is sorted by in saveSchedule
SaveSortKey(st) ==
  IF st.scheduleType = "monthly" /\ st.monthStart # {}
  THEN CHOOSE d \in st.monthStart : TRUE
  ELSE st.weekStart

StoredOrder(stored, keys) ==
  LET order == SortDesc(keys)
  IN [k \in DOMAIN order |-> stored[order[k]]]

\* getAllSchedules: the stored list sorted by weekStart, latest first
getAllSchedules(stored) ==
  StoredOrder(stored, [k \in DOMAIN stored |-> stored[k].weekStart])

\* a save that removes nothing
DropPeriod_KeepAll(stored, monthly, weekStart, monthStart) == stored

RECURSIVE DropPeriod(_, _, _, _)
DropPeriod(stored, monthly, weekStart, monthStart) ==
  IF stored = <<>> THEN <<>>
  ELSE LET st == Head(stored)
           keep == IF monthly /\ monthStart # {}
                   THEN st.monthStart # monthStart
                   ELSE st.weekStart # weekStart
           rest == DropPeriod(Tail(stored), monthly, weekStart, monthStart)
       IN IF keep THEN <<st>> \o rest ELSE rest

saveSchedule(stored, sched) ==
  LET schedules == getAllSchedules(stored)
      weekStart == formatDate(ParseDate(sched.weekStartDate))
      monthStart ==
        IF sched.monthStartDate # {}
        THEN {FirstOfMonth(formatDate(ParseDate(
                CHOOSE x \in sched.monthStartDate : TRUE)))}
        ELSE {}
      storedSchedule ==
        [sched |-> sched, scheduleType |-> sched.scheduleType,
         weekStart |-> weekStart, monthStart |-> monthStart]
      filteredSchedules ==
        DropPeriod(schedules, sched.scheduleType = "monthly", weekStart,
                   monthStart)
      updatedSchedules == Append(filteredSchedules, storedSchedule)
  IN StoredOrder(updatedSchedules,
                 [k \in DOMAIN updatedSchedules |->
                    SaveSortKey(updatedSchedules[k])])

(***************************************************************************)
(* The page's inputs and the initial state                                 *)
(***************************************************************************)
\* the page shows a Wednesday morning of February 2024
CurrentDay == MonthFirstDay(3) + 6

CurrentInstant(tzo) == LocalMidnight(CurrentDay, tzo) + 10

\* the inputs on which manual edits are explored
EditInputs(r, cfg, tzo, mode) ==
  /\ mode = "weekly"
  /\ tzo = 0
  /\ \A i \in DOMAIN r : r[i] = PickyStaff(i)
  /\ DOMAIN cfg.dayConfigurations = AllDays
  /\ cfg.dayConfigurations["saturday"] = ClosedPolicy
  /\ cfg.dayConfigurations["monday"] = Policy(<<"morning">>, <<>>, 1, MaxReq)
  /\ cfg.maxHoursPerWeek = DefaultGlobal.maxHoursPerWeek

Init ==
  /\ \E in \in Inputs :
       /\ staff = in.staff
       /\ config = in.config
       /\ tz = in.tz
       /\ viewMode = in.viewMode
  /\ current = CurrentInstant(tz)
  /\ pc = "idle"
  /\ shifts = <<>>
  /\ sortedShifts = <<>>
  /\ pos = 0
  /\ assignedCount = 0
  /\ assignments = [id \in {} |-> <<>>]
  /\ schedule = {}
  /\ previous = {}
  /\ store = <<>>
  /\ now = 0
  /\ rng = 0
  /\ runs = 0
  /\ editsLeft = IF EditInputs(staff, config, tz, viewMode) THEN MaxEdits ELSE 0

(***************************************************************************)
(* Generation: generateSmartSchedule of the schedule page driving          *)
(* ConfigurableScheduler.generateSchedule / generateMonthlySchedule        *)
(***************************************************************************)
\* getWeekDates(currentWeek)[0].toISOString(): the Monday of the shown week
weekStartDateOf(t, tzo) == t - (JsDay(LocalDay(t, tzo)) - 1) * 24

\* DateUtils.getMonthStart(currentMonth).toISOString()
monthStartDateOf(t, tzo) == getMonthStart(t, tzo)

\* assignments after "Initialize staff assignments"
InitialAssignments(roster) ==
  [id \in {roster[i].id : i \in {j \in DOMAIN roster : roster[j].isActive}}
     |-> <<>>]

CanGenerate ==
  /\ pc \in {"idle", "done", "error"}
  /\ runs < MaxRuns
  /\ Len(staff) > 0

StartFill(newShifts, order) ==
  /\ shifts' = newShifts
  /\ sortedShifts' = order
  /\ rng' = rng + Len(newShifts)
  /\ assignments' = InitialAssignments(staff)
  /\ pos' = 1
  /\ assignedCount' = 0
  /\ pc' = IF Len(newShifts) = 0 THEN "assemble" ELSE "primary"
  /\ now' = now + 1
  /\ runs' = runs + 1
  /\ UNCHANGED <<inputs, schedule, previous, store, editsLeft>>

\* generateSchedule up to and including the priority sort
GenerateWeekly ==
  /\ CanGenerate
  /\ viewMode = "weekly"
  /\ ~WeeklyThrows(config)
  /\ LET newShifts == WeeklyShifts(config, now + 1, rng)
         keys == ArrayOf([k \in DOMAIN newShifts |->
                            getPriorityScore(staff, config, newShifts[k])])
     IN StartFill(newShifts, SortDesc(keys))

\* generateMonthlySchedule up to and including the priority sort
GenerateMonthly ==
  /\ CanGenerate
  /\ viewMode = "monthly"
  /\ ~MonthlyThrows(config, monthStartDateOf(current, tz), tz)
  /\ LET newShifts ==
           MonthlyShifts(config, monthStartDateOf(current, tz), tz, now + 1, rng)
         keys == ArrayOf([k \in DOMAIN newShifts |->
                            getMonthlyPriorityScore(staff, newShifts[k])])
     IN StartFill(newShifts, SortDesc(keys))

\* Math.random() draws made before the factory throws
RECURSIVE DrawsBeforeThrow(_, _, _)
DrawsBeforeThrow(cfg, dayNames, i) ==
  IF i > Len(dayNames) \/ dayNames[i] \notin DOMAIN cfg.dayConfigurations
  THEN 0
  ELSE Len(cfg.dayConfigurations[dayNames[i]].enabledShiftTypes)
       + DrawsBeforeThrow(cfg, dayNames, i + 1)

\* a factory that skips the days without a configuration and goes on
GenerateThrows_Skipped ==
  /\ CanGenerate
  /\ LET dates == getMonthDates(monthStartDateOf(current, tz), tz)
         dayNames == IF viewMode = "weekly" THEN daysOfWeek
                     ELSE [k \in DOMAIN dates |-> getDayOfWeek(dates[k], tz)]
     IN /\ \E k \in DOMAIN dayNames :
             dayNames[k] \notin DOMAIN config.dayConfigurations
        /\ rng' = rng + DrawsBeforeThrow(config, dayNames, 1)
  /\ pc' = "assemble"
  /\ now' = now + 1
  /\ runs' = runs + 1
  /\ UNCHANGED <<inputs, shifts, sortedShifts, pos, assignedCount,
                 assignments, schedule, previous, store, editsLeft>>

\* the factory reads a missing day configuration: TypeError, caught by the
\* page, which keeps its schedule
GenerateThrows ==
  /\ CanGenerate
  /\ LET dates == getMonthDates(monthStartDateOf(current, tz), tz)
         dayNames == IF viewMode = "weekly" THEN daysOfWeek
                     ELSE [k \in DOMAIN dates |-> getDayOfWeek(dates[k], tz)]
     IN /\ \E k \in DOMAIN dayNames :
             dayNames[k] \notin DOMAIN config.dayConfigurations
        /\ rng' = rng + DrawsBeforeThrow(config, dayNames, 1)
  /\ pc' = "error"
  /\ now' = now + 1
  /\ runs' = runs + 1
  /\ UNCHANGED <<inputs, shifts, sortedShifts, pos, assignedCount,
                 assignments, schedule, previous, store, editsLeft>>

\* sort and primary fill of the shift at position pos, given the scores of
\* its candidates
PrimaryStep(scores) ==
  LET i == sortedShifts[pos]
      shift == shifts[i]
      scoredCandidates ==
        ScoredCandidates(allActiveCandidates(staff, shift), scores)
      taken == PrimaryTake(scoredCandidates, 1, shift, 0)
      ids == [k \in 1..taken |-> staff[scoredCandidates[k].staff].id]
  IN /\ shifts' = [shifts EXCEPT ![i].assignedStaff = @ \o ids]
     /\ assignments' = PushAll(assignments, ids, i)
     /\ assignedCount' = taken
     /\ pc' = "emergency"
     /\ UNCHANGED <<inputs, sortedShifts, pos, schedule, previous, store,
                    now, rng, runs, editsLeft>>

\* allActiveCandidates.map(staff => calculateStaffScore(...)) for the shift at
\* position pos
WeeklyScores ==
  LET shift == shifts[sortedShifts[pos]]
      cands == allActiveCandidates(staff, shift)
  IN ArrayOf([k \in DOMAIN cands |->
       calculateStaffScore(staff, config, staff[cands[k]], shift,
         AssignmentsOf(assignments, shifts, staff[cands[k]].id))])

PrimaryFillWeekly ==
  /\ pc = "primary"
  /\ viewMode = "weekly"
  /\ PrimaryStep(WeeklyScores)

\* allActiveCandidates.map(staff => calculateMonthlyStaffScore(...)) for the
\* shift at position pos
MonthlyScores ==
  LET shift == shifts[sortedShifts[pos]]
      cands == allActiveCandidates(staff, shift)
  IN ArrayOf([k \in DOMAIN cands |->
       calculateMonthlyStaffScore(staff, config, staff[cands[k]], shift,
         AssignmentsOf(assignments, shifts, staff[cands[k]].id), shifts)])

PrimaryFillMonthly ==
  /\ pc = "primary"
  /\ viewMode = "monthly"
  /\ PrimaryStep(MonthlyScores)

\* emergency assignment of the shift at position pos, then the next shift
EmergencyStep ==
  LET i == sortedShifts[pos]
      shift == shifts[i]
      pool == emergencyStaff(staff, shift)
      taken == IF assignedCount < shift.minimumStaff
               THEN EmergencyTake(pool, 1, shift, assignedCount)
               ELSE 0
      ids == [k \in 1..taken |-> staff[pool[k]].id]
  IN /\ shifts' = [shifts EXCEPT ![i].assignedStaff = @ \o ids]
     /\ assignments' = PushAll(assignments, ids, i)
     /\ assignedCount' = assignedCount + taken
     /\ pos' = pos + 1
     /\ pc' = IF pos = Len(sortedShifts) THEN "assemble" ELSE "primary"
     /\ UNCHANGED <<inputs, sortedShifts, schedule, previous, store, now,
                    rng, runs, editsLeft>>

EmergencyFillWeekly ==
  /\ pc = "emergency"
  /\ viewMode = "weekly"
  /\ EmergencyStep

EmergencyFillMonthly ==
  /\ pc = "emergency"
  /\ viewMode = "monthly"
  /\ EmergencyStep

\* the run returns; the page keeps the schedule and saves it as a draft
Return(sched) ==
  /\ previous' = schedule
  /\ schedule' = {sched}
  /\ store' = saveSchedule(store, sched)
  /\ shifts' = <<>>
  /\ sortedShifts' = <<>>
  /\ pos' = 0
  /\ assignedCount' = 0
  /\ assignments' = [id \in {} |-> <<>>]
  /\ pc' = "done"
  /\ UNCHANGED <<inputs, now, rng, runs, editsLeft>>

AssembleWeekly ==
  /\ pc = "assemble"
  /\ viewMode = "weekly"
  /\ Return([id |-> <<"schedule", now>>,
             weekStartDate |-> <<"instant", weekStartDateOf(current, tz)>>,
             monthStartDate |-> {},
             scheduleType |-> "weekly",
             shifts |-> shifts,
             isPublished |-> FALSE,
             createdAt |-> now,
             updatedAt |-> now])

AssembleMonthly ==
  /\ pc = "assemble"
  /\ viewMode = "monthly"
  /\ LET monthDate == monthStartDateOf(current, tz)
     IN Return([id |-> <<"monthly-schedule", now>>,
                weekStartDate |-> <<"date", formatDate(monthDate)>>,
                monthStartDate |->
                  {<<"date", formatDate(getMonthStart(monthDate, tz))>>},
                scheduleType |-> "monthly",
                shifts |-> shifts,
                isPublished |-> FALSE,
                createdAt |-> now,
                updatedAt |-> now])

(***************************************************************************)
(* Manual edits of the schedule page                                       *)
(***************************************************************************)
TheSchedule == CHOOSE sched \in schedule : TRUE

\* schedule.shifts.find(s => s.id === shiftId): 0 when there is none
FindShift(sched, shiftId) ==
  IF \E k \in DOMAIN sched.shifts : sched.shifts[k].id = shiftId
  THEN CHOOSE k \in DOMAIN sched.shifts :
         /\ sched.shifts[k].id = shiftId
         /\ \A j \in 1..(k - 1) : sched.shifts[j].id # shiftId
  ELSE 0

\* shift.assignedStaff.filter(id => id !== staffId)
RECURSIVE WithoutStaff(_, _)
WithoutStaff(assigned, staffId) ==
  IF assigned = <<>> THEN <<>>
  ELSE IF Head(assigned) # staffId
       THEN <<Head(assigned)>> \o WithoutStaff(Tail(assigned), staffId)
       ELSE WithoutStaff(Tail(assigned), staffId)

updateShiftAssignments(sched, shiftId, newAssignments, clock) ==
  [sched EXCEPT
     !.shifts = [k \in DOMAIN sched.shifts |->
                   IF sched.shifts[k].id = shiftId
                   THEN [sched.shifts[k] EXCEPT !.assignedStaff = newAssignments]
                   ELSE sched.shifts[k]],
     !.updatedAt = clock]

ActiveIds == {staff[i].id : i \in {j \in DOMAIN staff : staff[j].isActive}}

EditFrame ==
  UNCHANGED <<inputs, pc, shifts, sortedShifts, pos, assignedCount,
              assignments, previous, rng, runs>>

\* addStaffToShift without the test against maximumStaff
addStaffToShift_NoCapacityTest(shiftId, staffId) ==
  /\ pc = "done"
  /\ schedule # {}
  /\ editsLeft > 0
  /\ editsLeft' = editsLeft - 1
  /\ now' = now + 1
  /\ UNCHANGED <<inputs, pc, shifts, sortedShifts, pos, assignedCount,
                 assignments, previous, rng, runs>>
  /\ LET k == FindShift(TheSchedule, shiftId)
     IN IF k = 0 THEN UNCHANGED <<schedule, store>>
        ELSE LET updated ==
                   updateShiftAssignments(TheSchedule, shiftId,
                     Append(TheSchedule.shifts[k].assignedStaff, staffId),
                     now + 1)
             IN /\ schedule' = {updated}
                /\ store' = saveSchedule(store, updated)

addStaffToShift(shiftId, staffId) ==
  /\ pc = "done"
  /\ schedule # {}
  /\ editsLeft > 0
  /\ editsLeft' = editsLeft - 1
  /\ now' = now + 1
  /\ EditFrame
  /\ LET k == FindShift(TheSchedule, shiftId)
     IN IF k = 0 THEN UNCHANGED <<schedule, store>>
        ELSE LET shift == TheSchedule.shifts[k]
             IN IF Len(shift.assignedStaff) >= shift.maximumStaff
                THEN UNCHANGED <<schedule, store>>
                ELSE LET updated ==
                           updateShiftAssignments(TheSchedule, shiftId,
                             Append(shift.assignedStaff, staffId), now + 1)
                     IN /\ schedule' = {updated}
                        /\ store' = saveSchedule(store, updated)

removeStaffFromShift(shiftId, staffId) ==
  /\ pc = "done"
  /\ schedule # {}
  /\ editsLeft > 0
  /\ editsLeft' = editsLeft - 1
  /\ now' = now + 1
  /\ EditFrame
  /\ LET k == FindShift(TheSchedule, shiftId)
     IN IF k = 0 THEN UNCHANGED <<schedule, store>>
        ELSE LET updated ==
                   updateShiftAssignments(TheSchedule, shiftId,
                     WithoutStaff(TheSchedule.shifts[k].assignedStaff, staffId),
                     now + 1)
             IN /\ schedule' = {updated}
                /\ store' = saveSchedule(store, updated)

ShiftIdsShown ==
  IF schedule = {} THEN {}
  ELSE {TheSchedule.shifts[k].id : k \in DOMAIN TheSchedule.shifts}

\* the shift editor is open on a generated schedule
CanEdit == pc = "done" /\ editsLeft > 0

AddStaff ==
  /\ CanEdit
  /\ \E shiftId \in ShiftIdsShown, staffId \in ActiveIds :
       addStaffToShift(shiftId, staffId)

RemoveStaff ==
  /\ CanEdit
  /\ \E shiftId \in ShiftIdsShown, staffId \in ActiveIds :
       removeStaffFromShift(shiftId, staffId)

Next ==
  \/ GenerateWeekly
  \/ GenerateMonthly
  \/ GenerateThrows
  \/ PrimaryFillWeekly
  \/ PrimaryFillMonthly
  \/ EmergencyFillWeekly
  \/ EmergencyFillMonthly
  \/ AssembleWeekly
  \/ AssembleMonthly
  \/ AddStaff
  \/ RemoveStaff

Spec == Init /\ [][Next]_vars

(***************************************************************************)
(* Views of the state used by the properties                               *)
(***************************************************************************)
Generating == pc \in {"primary", "emergency", "assemble"}

\* the page holds the schedule exactly as generation returned it
Fresh(sched) == sched.updatedAt = sched.createdAt

\* generation has just returned: no handler has run since
JustReturned == pc = "done" /\ schedule # {} /\ now = TheSchedule.createdAt

\* the shifts of the schedule generation has just returned
ReturnedShifts == IF JustReturned THEN TheSchedule.shifts ELSE <<>>

\* the shift array of the run in progress or of the schedule just returned
GeneratedShifts == IF Generating THEN shifts ELSE ReturnedShifts

\* every shift array the program holds
ShiftArrays ==
  {shifts} \cup {sched.shifts : sched \in schedule}
  \cup {store[k].sched.shifts : k \in DOMAIN store}

NoDuplicates(seq) ==
  \A i, j \in DOMAIN seq : i # j => seq[i] # seq[j]

ConfigComplete == DOMAIN config.dayConfigurations = AllDays

\* the active staff members holding one of the shift's required skills
SkillHolders(shift) ==
  {i \in DOMAIN staff : staff[i].isActive /\ HasRequiredSkill(staff[i], shift)}

\* some enabled kind of some configured day has minimum > maximum
SomeMinimumAboveMaximum ==
  \E d \in DOMAIN config.dayConfigurations :
    \E k \in DOMAIN config.dayConfigurations[d].enabledShiftTypes :
      LET dayConfig == config.dayConfigurations[d]
          req == StaffRequirementsOf(dayConfig, dayConfig.enabledShiftTypes[k])
      IN req.minimum > req.maximum

\* the name of a calendar day, from the calendar alone (day 0 is a Friday)
CalendarDayName(d) == daysOfWeek[((d + 4) % 7) + 1]

\* one (day, kind) pair per enabled kind, for the days i.. of the week
RECURSIVE ExpectedWeeklyFrom(_)
ExpectedWeeklyFrom(i) ==
  IF i > Len(daysOfWeek) THEN <<>>
  ELSE LET enabled == config.dayConfigurations[daysOfWeek[i]].enabledShiftTypes
       IN [j \in DOMAIN enabled |-> <<daysOfWeek[i], enabled[j]>>]
          \o ExpectedWeeklyFrom(i + 1)

\* one (date string, day, kind) triple per kind enabled for the day of the
\* week of each of the calendar days d..last
RECURSIVE ExpectedMonthlyFrom(_, _)
ExpectedMonthlyFrom(d, last) ==
  IF d > last THEN <<>>
  ELSE LET day == CalendarDayName(d)
           enabled == config.dayConfigurations[day].enabledShiftTypes
       IN [j \in DOMAIN enabled |->
             <<formatDate(LocalMidnight(d, tz)), day, enabled[j]>>]
          \o ExpectedMonthlyFrom(d + 1, last)

EnabledFor(day, kind) ==
  /\ day \in DOMAIN config.dayConfigurations
  /\ Includes(config.dayConfigurations[day].enabledShiftTypes, kind)

\* a shift without its id
StripId(shift) == [f \in DOMAIN shift \ {"id"} |-> shift[f]]

StripIds(a) == [k \in DOMAIN a |-> StripId(a[k])]

\* position of shift index i in the processing order
ProcessedAt(i) == IndexOf(sortedShifts, i)

(***************************************************************************)
(* C1 - capacity                                                           *)
(***************************************************************************)
\* C1: in every reachable state - during and after weekly and monthly
\* generation and after any sequence of manual addStaffToShift and
\* removeStaffFromShift edits - every shift the program holds (the run's
\* array, the page's schedule, the stored schedules) has at most maximumStaff
\* assigned staff; an add on a shift already at maximumStaff is therefore
\* refused.
C1_WithinMaximumStaff ==
  \A a \in ShiftArrays : \A k \in DOMAIN a :
    Len(a[k].assignedStaff) <= a[k].maximumStaff

\* an add was attempted on a returned schedule whose shifts are all full, and
\* the schedule is still as generated
C1_RefusedAddWitness ==
  /\ pc = "done"
  /\ schedule # {}
  /\ now > TheSchedule.createdAt
  /\ Fresh(TheSchedule)
  /\ Len(TheSchedule.shifts) > 0
  /\ \A k \in DOMAIN TheSchedule.shifts :
       Len(TheSchedule.shifts[k].assignedStaff) = TheSchedule.shifts[k].maximumStaff

(***************************************************************************)
(* C2 - no duplicate assignment                                            *)
(***************************************************************************)
\* C2: for a roster with pairwise distinct staff ids, during generation and
\* in the schedule it returns (weekly or monthly) no shift's assignedStaff
\* holds the same staff id twice.
C2_NoDuplicateAssignee ==
  NoDuplicates([i \in DOMAIN staff |-> staff[i].id]) =>
    \A k \in DOMAIN GeneratedShifts :
      NoDuplicates(GeneratedShifts[k].assignedStaff)

\* a returned schedule with a shift of two assignees, one of whom also works
\* another shift
C2_SharedStaffWitness ==
  /\ JustReturned
  /\ \E j, k \in DOMAIN ReturnedShifts :
       /\ j # k
       /\ Len(ReturnedShifts[j].assignedStaff) >= 2
       /\ \E id \in Range(ReturnedShifts[j].assignedStaff) :
            Includes(ReturnedShifts[k].assignedStaff, id)

(***************************************************************************)
(* C3 - minimum staffing                                                   *)
(***************************************************************************)
\* C3 as stated: when the number of active staff is at least minimumStaff for
\* every shift, every shift of the returned schedule has at least minimumStaff
\* assigned staff.
C3_MinimumMetWheneverEnoughActive ==
  (\A k \in DOMAIN ReturnedShifts :
     ActiveCount(staff) >= ReturnedShifts[k].minimumStaff)
  => \A k \in DOMAIN ReturnedShifts :
       Len(ReturnedShifts[k].assignedStaff) >= ReturnedShifts[k].minimumStaff

\* C3, amended: when the number of active staff is at least minimumStaff and
\* minimumStaff <= maximumStaff for every shift, every shift of the returned
\* schedule has at least minimumStaff assigned staff.
C3_MinimumMetWithinBounds ==
  (\A k \in DOMAIN ReturnedShifts :
     /\ ActiveCount(staff) >= ReturnedShifts[k].minimumStaff
     /\ ReturnedShifts[k].minimumStaff <= ReturnedShifts[k].maximumStaff)
  => \A k \in DOMAIN ReturnedShifts :
       Len(ReturnedShifts[k].assignedStaff) >= ReturnedShifts[k].minimumStaff

\* a returned schedule of several shifts, each needing every active member,
\* all of them staffed to the minimum
C3_AllHandsWitness ==
  /\ JustReturned
  /\ Len(ReturnedShifts) >= 4
  /\ \A k \in DOMAIN ReturnedShifts :
       /\ ReturnedShifts[k].minimumStaff = ActiveCount(staff)
       /\ ReturnedShifts[k].minimumStaff >= 2
       /\ ReturnedShifts[k].minimumStaff <= ReturnedShifts[k].maximumStaff
       /\ Len(ReturnedShifts[k].assignedStaff) >= ReturnedShifts[k].minimumStaff

(***************************************************************************)
(* C4 - invalid configuration                                              *)
(***************************************************************************)
\* C4 as stated: when an enabled kind has minimumStaff > maximumStaff, or a
\* day of the week has no configuration, generation fails with an error and
\* returns no schedule: no shift is generated or assigned.
C4_InvalidConfigurationRejected ==
  (SomeMinimumAboveMaximum \/ ~ConfigComplete)
  => /\ pc \in {"idle", "error"}
     /\ schedule = {}
     /\ shifts = <<>>

\* C4, amended: when a day of the week has no configuration, generation fails
\* with an error, returns no schedule and stores nothing; a complete
\* configuration never fails, also when an enabled kind has
\* minimumStaff > maximumStaff.
C4_OnlyMissingDayFails ==
  /\ ~ConfigComplete => /\ pc \in {"idle", "error"}
                        /\ schedule = {}
                        /\ shifts = <<>>
                        /\ store = <<>>
  /\ ConfigComplete => pc # "error"

\* generation was run twice on a configuration without Sunday and failed
C4_FailedRunWitness ==
  /\ ~ConfigComplete
  /\ pc = "error"
  /\ runs = 2
  /\ schedule = {}

(***************************************************************************)
(* C5 - infeasible minimum                                                 *)
(***************************************************************************)
\* C5: when a shift has more minimumStaff than there are active staff (and
\* minimumStaff <= maximumStaff), generation does not fail, every shift is
\* processed, and in the returned schedule the assignedStaff of such a shift
\* is exactly the set of all active staff, each once.
C5_InfeasibleMinimumGetsEveryone ==
  /\ (ConfigComplete /\ ~SomeMinimumAboveMaximum) => pc # "error"
  /\ pc = "assemble" =>
       /\ pos = Len(shifts) + 1
       /\ Range(sortedShifts) = DOMAIN shifts
  /\ \A k \in DOMAIN ReturnedShifts :
       LET shift == ReturnedShifts[k]
       IN (/\ ActiveCount(staff) < shift.minimumStaff
           /\ shift.minimumStaff <= shift.maximumStaff)
          => /\ Range(shift.assignedStaff) = ActiveIds
             /\ Len(shift.assignedStaff) = ActiveCount(staff)

\* a returned schedule in which an under-staffable shift holds the only
\* active member, next to a shift that could be staffed in full
C5_UnderstaffedWitness ==
  /\ JustReturned
  /\ ActiveCount(staff) = 1
  /\ \E j, k \in DOMAIN ReturnedShifts :
       /\ ReturnedShifts[j].minimumStaff = 2
       /\ ReturnedShifts[j].maximumStaff >= 2
       /\ Len(ReturnedShifts[j].assignedStaff) = 1
       /\ ReturnedShifts[k].minimumStaff = 1
       /\ Len(ReturnedShifts[k].assignedStaff) = 1

(***************************************************************************)
(* C6 - determinism                                                        *)
(***************************************************************************)
\* C6 as stated: two generation runs with the same roster, configuration,
\* period and mode return the same shifts: same ids, same order, same
\* assignedStaff.
C6_SecondRunIdentical ==
  (JustReturned /\ previous # {})
  => \A prev \in previous :
       Fresh(prev) => prev.shifts = ReturnedShifts

\* C6, amended: two generation runs with the same inputs return the same
\* shifts in the same order with the same assignedStaff and the same other
\* fields, except for the shift ids (which embed Date.now() and
\* Math.random()).
C6_SecondRunIdenticalUpToIds ==
  (JustReturned /\ previous # {})
  => \A prev \in previous :
       Fresh(prev) => StripIds(prev.shifts) = StripIds(ReturnedShifts)

\* a second run has returned after an unedited first one, with several
\* staffed shifts
C6_SecondRunWitness ==
  /\ JustReturned
  /\ runs = 2
  /\ \E prev \in previous :
       /\ Fresh(prev)
       /\ Len(prev.shifts) >= 4
       /\ \E k \in DOMAIN prev.shifts : Len(prev.shifts[k].assignedStaff) >= 2

(***************************************************************************)
(* C7 - processing order of skilled shifts                                 *)
(***************************************************************************)
\* C7 as stated: in weekly generation, of two shifts with equal minimumStaff,
\* one requiring a skill held by exactly one active staff member is processed
\* before one requiring no skills, whatever their kinds, days and
\* maximumStaff.
C7_ScarceSkillFirst ==
  (Generating /\ viewMode = "weekly")
  => \A a, b \in DOMAIN shifts :
       (/\ shifts[a].minimumStaff = shifts[b].minimumStaff
        /\ Len(shifts[a].requiredSkills) > 0
        /\ Cardinality(SkillHolders(shifts[a])) = 1
        /\ Len(shifts[b].requiredSkills) = 0)
       => ProcessedAt(a) < ProcessedAt(b)

\* C7, amended: in weekly generation, of two shifts of the same kind with
\* equal minimumStaff of at least 1, one requiring a skill held by exactly one
\* active staff member is processed before one requiring no skills, whatever
\* their days and maximumStaff.
C7_ScarceSkillFirstWithinKind ==
  (Generating /\ viewMode = "weekly")
  => \A a, b \in DOMAIN shifts :
       (/\ shifts[a].minimumStaff = shifts[b].minimumStaff
        /\ shifts[a].minimumStaff >= 1
        /\ shifts[a].type = shifts[b].type
        /\ Len(shifts[a].requiredSkills) > 0
        /\ Cardinality(SkillHolders(shifts[a])) = 1
        /\ Len(shifts[b].requiredSkills) = 0)
       => ProcessedAt(a) < ProcessedAt(b)

\* a weekly run holding a weekday shift that requires a scarce skill and a
\* weekend shift of the same kind and minimum, with a lower maximumStaff, that
\* requires none
C7_SameKindWitness ==
  /\ Generating
  /\ viewMode = "weekly"
  /\ \E a, b \in DOMAIN shifts :
       /\ shifts[a].minimumStaff = shifts[b].minimumStaff
       /\ shifts[a].type = shifts[b].type
       /\ Len(shifts[a].requiredSkills) > 0
       /\ Cardinality(SkillHolders(shifts[a])) = 1
       /\ Len(shifts[b].requiredSkills) = 0
       /\ shifts[a].maximumStaff > shifts[b].maximumStaff
       /\ shifts[a].day \notin Weekend
       /\ shifts[b].day \in Weekend

(***************************************************************************)
(* C8 - inactive staff                                                     *)
(***************************************************************************)
\* C8: no staff member with isActive = false is in any shift's assignedStaff,
\* during generation or in the returned schedule, also when that leaves a
\* shift below its minimum.
C8_OnlyActiveAssigned ==
  \A k \in DOMAIN GeneratedShifts :
    Range(GeneratedShifts[k].assignedStaff) \subseteq ActiveIds

\* a returned schedule with a staffed shift below its minimum while the
\* roster holds an inactive member with the required skill
C8_InactiveLeftOutWitness ==
  /\ JustReturned
  /\ \E i \in DOMAIN staff : ~staff[i].isActive
  /\ \E k \in DOMAIN ReturnedShifts :
       /\ Len(ReturnedShifts[k].requiredSkills) > 0
       /\ Len(ReturnedShifts[k].assignedStaff) >= 1
       /\ Len(ReturnedShifts[k].assignedStaff) < ReturnedShifts[k].minimumStaff
       /\ Len(ReturnedShifts[k].assignedStaff) < ReturnedShifts[k].maximumStaff
       /\ \E i \in DOMAIN staff :
            ~staff[i].isActive /\ HasRequiredSkill(staff[i], ReturnedShifts[k])

(***************************************************************************)
(* C9 - skills are soft                                                    *)
(***************************************************************************)
\* C9 as stated: a shift whose required skills no active staff member holds
\* is still assigned min(minimumStaff, number of active staff) staff, none of
\* whom holds the skill - also when requireSkillMatch and
\* minimumSkillsRequired are both true.
C9_UnskilledStillStaffed ==
  \A k \in DOMAIN ReturnedShifts :
    LET shift == ReturnedShifts[k]
    IN (Len(shift.requiredSkills) > 0 /\ SkillHolders(shift) = {})
       => Len(shift.assignedStaff) >= Min2(shift.minimumStaff, ActiveCount(staff))

\* C9, amended: a shift with minimumStaff <= maximumStaff whose required
\* skills no active staff member holds is still assigned at least
\* min(minimumStaff, number of active staff) staff, all of them active members
\* without the skill - also when requireSkillMatch and minimumSkillsRequired
\* are both true.
C9_UnskilledStillStaffedWithinBounds ==
  \A k \in DOMAIN ReturnedShifts :
    LET shift == ReturnedShifts[k]
    IN (/\ Len(shift.requiredSkills) > 0
        /\ SkillHolders(shift) = {}
        /\ shift.minimumStaff <= shift.maximumStaff)
       => /\ Len(shift.assignedStaff)
               >= Min2(shift.minimumStaff, ActiveCount(staff))
          /\ \A i \in DOMAIN staff :
               Includes(shift.assignedStaff, staff[i].id)
                 => staff[i].isActive /\ ~HasRequiredSkill(staff[i], shift)

\* under strict skill matching, a returned shift requiring a skill that no
\* active member holds is staffed to its minimum of two
C9_StrictUnskilledWitness ==
  /\ JustReturned
  /\ config.requireSkillMatch
  /\ config.minimumSkillsRequired
  /\ \E k \in DOMAIN ReturnedShifts :
       /\ Len(ReturnedShifts[k].requiredSkills) > 0
       /\ SkillHolders(ReturnedShifts[k]) = {}
       /\ ReturnedShifts[k].minimumStaff = 2
       /\ ReturnedShifts[k].maximumStaff >= 2
       /\ Len(ReturnedShifts[k].assignedStaff) >= 2

(***************************************************************************)
(* C10 - cardinality of the shift factory                                  *)
(***************************************************************************)
\* C10: weekly generation yields exactly one shift per (day of the week,
\* enabled kind), and monthly generation exactly one shift per (calendar date
\* of the month, kind enabled for that date's day of the week), a day without
\* enabled kinds contributing none: listed by day then kind, the shifts are
\* the calendar's, each monthly shift carrying the day of the week of its
\* calendar date and the date string formatDate gives that date's local
\* midnight; no two shifts share an id; the returned schedule contains exactly
\* these shifts.
C10_FactoryCardinality ==
  LET a == GeneratedShifts
      m == MonthOfDay(LocalDay(current, tz))
  IN (Generating \/ JustReturned) =>
       /\ viewMode = "weekly" =>
            [k \in DOMAIN a |-> <<a[k].day, a[k].type>>]
              = ExpectedWeeklyFrom(1)
       /\ viewMode = "monthly" =>
            [k \in DOMAIN a |-> <<a[k].date, a[k].day, a[k].type>>]
              = ExpectedMonthlyFrom(MonthFirstDay(m),
                                    MonthFirstDay(m) + MonthLengths[m] - 1)
       /\ \A j, k \in DOMAIN a : j # k => a[j].id # a[k].id

\* a returned monthly schedule of a month whose weekdays carry two kinds and
\* whose weekend carries one, the other days none
C10_MonthlyWitness ==
  /\ JustReturned
  /\ viewMode = "monthly"
  /\ EnabledFor("monday", "afternoon")
  /\ EnabledFor("monday", "night")
  /\ EnabledFor("saturday", "fullday")
  /\ Len(ReturnedShifts) = 24

(***************************************************************************)
(* C11 - a shift carries the policy of its calendar date                   *)
(***************************************************************************)
\* the calendar date a shift lies on: its date in monthly generation
DayNameOfShiftDate(shift) ==
  IF "date" \in DOMAIN shift THEN CalendarDayName(shift.date) ELSE shift.day

\* the month the page shows
TargetMonth == MonthOfDay(LocalDay(current, tz))

\* C11: every generated shift's requiredSkills, minimumStaff and maximumStaff
\* equal the entries configured for its kind in the day configuration of the
\* day of the week of the shift's calendar date; in monthly generation each
\* shift's date is a calendar date of the target month and its day is the day
\* of the week of that same date.
C11_ShiftCarriesPolicyOfItsDate ==
  (ConfigComplete /\ (Generating \/ JustReturned)) =>
    \A k \in DOMAIN GeneratedShifts :
      LET shift == GeneratedShifts[k]
          dayConfig == config.dayConfigurations[DayNameOfShiftDate(shift)]
      IN /\ shift.requiredSkills = SkillRequirementsOf(dayConfig, shift.type)
         /\ shift.minimumStaff = StaffRequirementsOf(dayConfig, shift.type).minimum
         /\ shift.maximumStaff = StaffRequirementsOf(dayConfig, shift.type).maximum
         /\ viewMode = "monthly" =>
              /\ "date" \in DOMAIN shift
              /\ MonthOfDay(shift.date) = TargetMonth
              /\ shift.day = CalendarDayName(shift.date)

\* C11 in a browser whose zone is UTC: there the claim holds
C11_HoldsInUTC == (tz = 0) => C11_ShiftCarriesPolicyOfItsDate

(***************************************************************************)
(* C12 - the weekly hour cap under a generous roster                       *)
(***************************************************************************)
\* the run is the weekly run of twelve active staff over 21 shifts, three
\* kinds on each of the seven days, with minimum <= maximum and a minimum
\* demand that fits in the roster's capacity
GenerousRun ==
  /\ viewMode = "weekly"
  /\ Len(staff) = 12
  /\ ActiveCount(staff) = 12
  /\ config.maxHoursPerWeek = 40
  /\ \A d \in AllDays :
       /\ d \in DOMAIN config.dayConfigurations
       /\ config.dayConfigurations[d].enabledShiftTypes
            = <<"morning", "afternoon", "night">>
       /\ \A k \in {"morning", "afternoon", "night"} :
            LET req == StaffRequirementsOf(config.dayConfigurations[d], k)
            IN /\ req.minimum <= req.maximum
               /\ 7 * 3 * req.minimum * 8 <= 12 * 40

\* the shifts of an array that hold a staff member
ShiftsHolding(a, id) ==
  {k \in DOMAIN a : Includes(a[k].assignedStaff, id)}

\* C12: in weekly generation with 12 active staff, 21 eight-hour shifts and
\* maxHoursPerWeek = 40, for every choice of staffing bounds with minimum <=
\* maximum whose total minimum demand fits in the roster capacity, no staff
\* member's committed hours (8 per shift held) exceed 40 when generation
\* returns.
C12_HoursWithinCapUnderGenerousRoster ==
  (JustReturned /\ GenerousRun) =>
    \A i \in DOMAIN staff :
      8 * Cardinality(ShiftsHolding(ReturnedShifts, staff[i].id)) <= 40

\* C12 where every shift admits exactly its minimum: there the cap is kept
C12_HoldsWhenMaximumIsMinimum ==
  (\A k \in DOMAIN ReturnedShifts :
     ReturnedShifts[k].maximumStaff = ReturnedShifts[k].minimumStaff)
  => C12_HoursWithinCapUnderGenerousRoster

(***************************************************************************)
(* C13 - processing order                                                  *)
(***************************************************************************)
\* the priority the sort of the run in progress compares (monthly: doubled)
PriorityOf(i) ==
  IF viewMode = "weekly" THEN getPriorityScore(staff, config, shifts[i])
  ELSE getMonthlyPriorityScore(staff, shifts[i])

\* C13: the solver processes the shifts in non-increasing priority score, and
\* two shifts with equal priority score in the order the Shift Factory
\* generated them, in weekly and in monthly generation: the processing order
\* is a permutation of the generated shifts so ordered, the shifts before the
\* current position have been processed and those behind it are untouched.
C13_ProcessedByPriorityStable ==
  Generating =>
    /\ Len(sortedShifts) = Len(shifts)
    /\ Range(sortedShifts) = DOMAIN shifts
    /\ \A p, q \in DOMAIN sortedShifts :
         p < q =>
           \/ PriorityOf(sortedShifts[p]) > PriorityOf(sortedShifts[q])
           \/ /\ PriorityOf(sortedShifts[p]) = PriorityOf(sortedShifts[q])
              /\ sortedShifts[p] < sortedShifts[q]
    /\ \A q \in DOMAIN sortedShifts :
         (q > pos \/ (q = pos /\ pc = "primary")) =>
           shifts[sortedShifts[q]].assignedStaff = <<>>

\* a monthly run, all shifts processed, in which two shifts tie and the order
\* of the factory had to be changed for two others
C13_TieAndReorderWitness ==
  /\ pc = "assemble"
  /\ viewMode = "monthly"
  /\ \E a, b \in DOMAIN shifts : a # b /\ PriorityOf(a) = PriorityOf(b)
  /\ \E a, b \in DOMAIN shifts :
       a < b /\ PriorityOf(a) < PriorityOf(b)
       /\ ProcessedAt(b) < ProcessedAt(a)
  /\ \E k \in DOMAIN shifts : shifts[k].assignedStaff # <<>>

(***************************************************************************)
(* C14 - the weekly priority score                                         *)
(***************************************************************************)
\* the bonus of a shift kind
KindBonus(kind) ==
  CASE kind = "fullday" -> 30
    [] kind = "night" -> 25
    [] kind = "day" -> 15
    [] kind = "morning" -> 10
    [] kind = "afternoon" -> 5

\* the active staff who could staff a shift: those holding none of its
\* required skills are left out only under strict skill matching
CouldStaff(shift) ==
  {i \in DOMAIN staff :
     /\ staff[i].isActive
     /\ (config.requireSkillMatch /\ config.minimumSkillsRequired
         /\ shift.requiredSkills # <<>>)
        => i \in SkillHolders(shift)}

\* the seven components of the weekly priority score, by their definition
StatedWeeklyPriority(shift) ==
  20 * Len(shift.requiredSkills)
  + (IF shift.requiredSkills # <<>>
        /\ Cardinality(SkillHolders(shift)) < 2 * shift.minimumStaff
     THEN 25 ELSE 0)
  + (IF 10 * shift.maximumStaff
          < 15 * (IF shift.minimumStaff > 1 THEN shift.minimumStaff ELSE 1)
     THEN 20 ELSE 0)
  + KindBonus(shift.type)
  + (IF shift.day \in {"saturday", "sunday"} THEN 15 ELSE 0)
  + 8 * shift.minimumStaff
  + (IF 10 * Cardinality(CouldStaff(shift)) < 15 * shift.minimumStaff
     THEN 30 ELSE 0)

\* C14: for every shift, the priority used by weekly generation equals
\* 20 x (number of required skills) + 25 if the shift requires skills and
\* fewer than 2 x minimumStaff active staff hold one of them + 20 if
\* maximumStaff / max(minimumStaff, 1) < 1.5 + the kind bonus + 15 on Saturday
\* and Sunday + 8 x minimumStaff + 30 if fewer than 1.5 x minimumStaff active
\* staff could staff the shift; the shifts are processed in the stable
\* descending order of that number.
C14_WeeklyPriorityScore ==
  (Generating /\ viewMode = "weekly") =>
    /\ \A k \in DOMAIN shifts :
         getPriorityScore(staff, config, shifts[k])
           = StatedWeeklyPriority(shifts[k])
    /\ \A p, q \in DOMAIN sortedShifts :
         p < q =>
           \/ StatedWeeklyPriority(shifts[sortedShifts[p]])
                > StatedWeeklyPriority(shifts[sortedShifts[q]])
           \/ /\ StatedWeeklyPriority(shifts[sortedShifts[p]])
                   = StatedWeeklyPriority(shifts[sortedShifts[q]])
              /\ sortedShifts[p] < sortedShifts[q]

\* a weekly run with a weekend shift and a skilled shift whose pool is small
\* only because strict skill matching leaves the unskilled staff out
C14_StrictPoolWitness ==
  /\ Generating
  /\ viewMode = "weekly"
  /\ \E k \in DOMAIN shifts : shifts[k].day = "saturday"
  /\ \E k \in DOMAIN shifts :
       /\ shifts[k].requiredSkills # <<>>
       /\ 10 * Cardinality(CouldStaff(shifts[k])) < 15 * shifts[k].minimumStaff
       /\ 10 * ActiveCount(staff) >= 15 * shifts[k].minimumStaff
       /\ StatedWeeklyPriority(shifts[k]) >= 20 + 25 + 20 + 30

(***************************************************************************)
(* C15 - the monthly priority score                                        *)
(***************************************************************************)
\* twice the monthly priority as stated: the weekly priority of the same
\* shift plus max(0, 32 - dayOfMonth) x 0.5
StatedMonthlyPriority(shift) ==
  2 * StatedWeeklyPriority(shift)
  + (IF 32 - DayOfMonth(shift.date) > 0 THEN 32 - DayOfMonth(shift.date) ELSE 0)

\* the +30 small-candidate-pool component of the weekly priority
PoolComponent(shift) ==
  IF 10 * Cardinality(CouldStaff(shift)) < 15 * shift.minimumStaff
  THEN 30 ELSE 0

\* C15: for every shift, the priority used by monthly generation equals the
\* weekly priority score of the same shift (all its components, the +30
\* small-candidate-pool component included) plus max(0, 32 - dayOfMonth) x 0.5.
C15_MonthlyPriorityIsWeeklyPlusDateBonus ==
  (Generating /\ viewMode = "monthly") =>
    \A k \in DOMAIN shifts :
      getMonthlyPriorityScore(staff, shifts[k])
        = StatedMonthlyPriority(shifts[k])

\* C15 as far as the shifts are processed: the monthly processing order is
\* the stable descending order of the stated monthly priority
C15_MonthlyOrderIsStatedOrder ==
  (Generating /\ viewMode = "monthly") =>
    \A p, q \in DOMAIN sortedShifts :
      p < q =>
        \/ StatedMonthlyPriority(shifts[sortedShifts[p]])
             > StatedMonthlyPriority(shifts[sortedShifts[q]])
        \/ /\ StatedMonthlyPriority(shifts[sortedShifts[p]])
                = StatedMonthlyPriority(shifts[sortedShifts[q]])
           /\ sortedShifts[p] < sortedShifts[q]

\* what the monthly priority is: the stated one without the pool component
C15_MonthlyPriorityLacksPoolComponent ==
  (Generating /\ viewMode = "monthly") =>
    \A k \in DOMAIN shifts :
      getMonthlyPriorityScore(staff, shifts[k])
        = StatedMonthlyPriority(shifts[k]) - 2 * PoolComponent(shifts[k])

(***************************************************************************)
(* C16 - the primary fill rule                                             *)
(***************************************************************************)
\* the roster position of a staff id
PositionOf(id) == CHOOSE i \in DOMAIN staff : staff[i].id = id

ActivePositions == {i \in DOMAIN staff : staff[i].isActive}

\* the score of the roster member at position i for shift k, against the
\* running assignments of the current state (monthly: doubled; weekly:
\* multiplied by the number of active staff)
FillScore(i, k) ==
  IF viewMode = "weekly"
  THEN calculateStaffScore(staff, config, staff[i], shifts[k],
         AssignmentsOf(assignments, shifts, staff[i].id))
  ELSE calculateMonthlyStaffScore(staff, config, staff[i], shifts[k],
         AssignmentsOf(assignments, shifts, staff[i].id), shifts)

\* i comes before j in the candidate list sorted by descending score
RanksBefore(i, j, k) ==
  \/ FillScore(i, k) > FillScore(j, k)
  \/ FillScore(i, k) = FillScore(j, k) /\ i < j

\* the step that reaches a shift leaves it with the first n candidates
PrimaryFillRule ==
  (pc = "primary" /\ pc' = "emergency") =>
    LET k == sortedShifts[pos]
        assigned == shifts'[k].assignedStaff
        n == Len(assigned)
        taken == {PositionOf(assigned[j]) : j \in 1..n}
        rest == ActivePositions \ taken
    IN /\ NoDuplicates(assigned)
       /\ taken \subseteq ActivePositions
       \* in descending score order, no better candidate left out
       /\ \A j \in 1..(n - 1) :
            RanksBefore(PositionOf(assigned[j]), PositionOf(assigned[j + 1]), k)
       /\ \A i \in rest : \A j \in taken : RanksBefore(j, i, k)
       \* n is a count at which the loop stops
       /\ \/ n = shifts[k].maximumStaff
          \/ n >= shifts[k].minimumStaff /\ \A i \in rest : FillScore(i, k) < 0
          \/ rest = {}
       \* and the first such count
       /\ \A m \in 0..(n - 1) :
            /\ m < shifts[k].maximumStaff
            /\ ~(m >= shifts[k].minimumStaff
                 /\ FillScore(PositionOf(assigned[m + 1]), k) < 0)

\* what primary fill assigned is final: the rest of the run leaves it alone
FilledShiftsKept ==
  /\ pc = "emergency" =>
       shifts'[sortedShifts[pos]].assignedStaff
         = shifts[sortedShifts[pos]].assignedStaff
  /\ (pc \in {"primary", "emergency"} /\ pc' \in {"primary", "emergency"}) =>
       \A q \in 1..(pos - 1) :
         shifts'[sortedShifts[q]].assignedStaff
           = shifts[sortedShifts[q]].assignedStaff
  /\ pc = "assemble" => \A sched \in schedule' : sched.shifts = shifts

\* C16: for each shift, the final assignedStaff is exactly the first n entries
\* of the active-staff candidate list sorted by descending score (scores
\* computed once, against the running assignments at the moment the shift is
\* reached), where n is the first count at which n = maximumStaff, or n >=
\* minimumStaff and the next candidate's score is negative, or the candidates
\* are exhausted; hence no unassigned active staff member scored strictly
\* higher than an assigned one, and no negative-scored candidate is assigned
\* once minimumStaff is met.
C16_PrimaryFillRule == [][PrimaryFillRule /\ FilledShiftsKept]_vars

\* primary fill has just stopped between minimum and maximum at a candidate
\* with a negative score, having assigned someone
C16_SelectiveStopWitness ==
  /\ pc = "emergency"
  /\ LET k == sortedShifts[pos]
         n == Len(shifts[k].assignedStaff)
     IN /\ n >= 1
        /\ n >= shifts[k].minimumStaff
        /\ n < shifts[k].maximumStaff
        /\ \E i \in ActivePositions :
             /\ ~Includes(shifts[k].assignedStaff, staff[i].id)
             /\ FillScore(i, k) < 0

(***************************************************************************)
(* C17 - the running assignment lists                                      *)
(***************************************************************************)
\* the shifts processed before the current position, in processing order
EarlierProcessed == SubSeq(sortedShifts, 1, pos - 1)

\* the shifts of the run whose assignedStaff contains a staff member
HeldBy(id) == {k \in DOMAIN shifts : Includes(shifts[k].assignedStaff, id)}

\* C17: at the moment the solver starts scoring candidates for a shift, each
\* active staff member's running assignment list is exactly the list of
\* earlier-processed shifts whose assignedStaff contains that staff member
\* (in processing order, none missing, none repeated); at the end of the run
\* it equals the set of all shifts they are assigned to.
C17_RunningListsConsistent ==
  /\ pc = "primary" =>
       /\ DOMAIN assignments = ActiveIds
       /\ \A id \in ActiveIds :
            assignments[id] = FilterSeq(EarlierProcessed, HeldBy(id))
  /\ (pc = "assemble" /\ shifts # <<>>) =>
       /\ DOMAIN assignments = ActiveIds
       /\ \A id \in ActiveIds :
            /\ NoDuplicates(assignments[id])
            /\ Range(assignments[id]) = HeldBy(id)

\* the solver reaches a shift with two members holding different running
\* lists, one of them of two shifts or more
C17_UnequalListsWitness ==
  /\ pc = "primary"
  /\ pos > 2
  /\ \E a, b \in ActiveIds :
       /\ Len(assignments[a]) >= 2
       /\ assignments[b] # assignments[a]
       /\ assignments[b] # <<>>

(***************************************************************************)
(* C18 - consecutive worked days                                           *)
(***************************************************************************)
\* the calendar day a shift lies on: its date in monthly generation, its
\* place in the week in weekly generation
CalendarDayOf(shift) ==
  IF "date" \in DOMAIN shift THEN shift.date ELSE DayIndex(shift.day)

\* worked calendar days directly before, and directly after, day d
RECURSIVE DaysWorkedBefore(_, _)
DaysWorkedBefore(worked, d) ==
  IF (d - 1) \in worked THEN 1 + DaysWorkedBefore(worked, d - 1) ELSE 0

RECURSIVE DaysWorkedAfter(_, _)
DaysWorkedAfter(worked, d) ==
  IF (d + 1) \in worked THEN 1 + DaysWorkedAfter(worked, d + 1) ELSE 0

\* length of the run of worked calendar days that contains the shift's day
CalendarRun(shift, committed) ==
  LET worked == {CalendarDayOf(committed[k]) : k \in DOMAIN committed}
      d == CalendarDayOf(shift)
  IN 1 + DaysWorkedBefore(worked, d) + DaysWorkedAfter(worked, d)

\* the verdict agrees with the calendar for every shift of the run and every
\* active member's running list
ConsecutiveVerdictsAgree ==
  \A k \in DOMAIN shifts : \A id \in ActiveIds :
    LET committed == AssignmentsOf(assignments, shifts, id)
    IN violatesMaxConsecutive(config, shifts[k], committed)
         <=> (CalendarRun(shifts[k], committed) > config.maxConsecutiveShifts)

\* C18: violatesMaxConsecutive returns true exactly when the run of
\* consecutive worked calendar days that contains the candidate shift's date
\* (counting the committed days immediately before and immediately after it)
\* is longer than maxConsecutiveShifts, in weekly generation and in monthly
\* generation, where committed shifts lie in different weeks of the month.
C18_ConsecutiveRunByCalendar ==
  Generating => ConsecutiveVerdictsAgree

\* C18 in weekly generation alone: there the verdict is the calendar's
C18_HoldsInWeeklyRuns ==
  (Generating /\ viewMode = "weekly") => ConsecutiveVerdictsAgree

(***************************************************************************)
(* C19 - rest between shifts on adjacent days                              *)
(***************************************************************************)
\* the hour of the day at which a shift of a kind starts and ends, from the
\* times the factory gives the kinds; a night ends on the following day
StartsAt(kind) ==
  CASE kind = "morning" -> 7
    [] kind = "afternoon" -> 15
    [] kind = "night" -> 23
    [] kind = "day" -> 7
    [] kind = "fullday" -> 0

EndsAt(kind) ==
  CASE kind = "morning" -> 15
    [] kind = "afternoon" -> 23
    [] kind = "night" -> 24 + 7
    [] kind = "day" -> 19
    [] kind = "fullday" -> 24

\* hours from the end of the earlier shift to the start of the later one
HoursBetween(earlier, later) ==
  (CalendarDayOf(later) * 24 + StartsAt(later.type))
  - (CalendarDayOf(earlier) * 24 + EndsAt(earlier.type))

\* the pairs a run offers: a shift of the run and a shift some active member
\* is committed to
CommittedSomewhere ==
  UNION {{shifts[assignments[id][j]] : j \in DOMAIN assignments[id]} :
           id \in DOMAIN assignments}

\* on adjacent calendar days the verdict is the comparison of the true gap
AdjacentDayVerdict(shift, committed) ==
  LET d == CalendarDayOf(shift) - CalendarDayOf(committed)
  IN /\ d = 1 =>
          (violatesRestTime(config, shift, <<committed>>)
             <=> HoursBetween(committed, shift) < config.minRestHoursBetweenShifts)
     /\ d = -1 =>
          (violatesRestTime(config, shift, <<committed>>)
             <=> HoursBetween(shift, committed) < config.minRestHoursBetweenShifts)

\* C19: for a candidate shift and an already-committed shift on the adjacent
\* calendar day, violatesRestTime returns true exactly when the number of
\* hours between the end of the earlier shift and the start of the later
\* shift is below minRestHoursBetweenShifts, a night shift (23:00 to 07:00)
\* ending on the day after it starts.
C19_AdjacentDayRest ==
  Generating =>
    \A k \in DOMAIN shifts : \A committed \in CommittedSomewhere :
      AdjacentDayVerdict(shifts[k], committed)

\* C19 in weekly generation for the pairs in which the earlier shift ends on
\* the day it starts and neither shift is a fullday shift: there the verdict
\* is the true gap's
C19_HoldsWithinTheDay ==
  (Generating /\ viewMode = "weekly") =>
    \A k \in DOMAIN shifts : \A committed \in CommittedSomewhere :
      ({shifts[k].type, committed.type} \subseteq {"morning", "afternoon", "day"})
        => AdjacentDayVerdict(shifts[k], committed)

(***************************************************************************)
(* C20 - rest between shifts on the same day                               *)
(***************************************************************************)
\* two shifts of one calendar day overlap, or the gap between the end of one
\* and the start of the other is below the minimum rest
SameDayTooClose(a, b) ==
  LET gap == IF EndsAt(a.type) <= StartsAt(b.type)
             THEN StartsAt(b.type) - EndsAt(a.type)
             ELSE IF EndsAt(b.type) <= StartsAt(a.type)
                  THEN StartsAt(a.type) - EndsAt(b.type)
                  ELSE -1
  IN gap < config.minRestHoursBetweenShifts

OnSameDay(a, b) == a.id # b.id /\ CalendarDayOf(a) = CalendarDayOf(b)

\* C20: for a candidate shift and an already-committed shift on the same
\* calendar day, violatesRestTime returns true whenever the two shifts overlap
\* or the gap between the end of one and the start of the other is below
\* minRestHoursBetweenShifts (e.g. morning 07-15 followed by afternoon 15-23
\* with a positive minimum rest), and the result does not depend on which of
\* the two shifts is the candidate.
C20_SameDayRest ==
  Generating =>
    \A k \in DOMAIN shifts : \A committed \in CommittedSomewhere :
      OnSameDay(shifts[k], committed) =>
        /\ SameDayTooClose(shifts[k], committed)
             => violatesRestTime(config, shifts[k], <<committed>>)
        /\ violatesRestTime(config, shifts[k], <<committed>>)
             <=> violatesRestTime(config, committed, <<shifts[k]>>)

\* the second half of C20 alone: on the same day the verdict does not depend
\* on which of the two shifts is the candidate
C20_SameDayVerdictSymmetric ==
  Generating =>
    \A k \in DOMAIN shifts : \A committed \in CommittedSomewhere :
      OnSameDay(shifts[k], committed) =>
        (violatesRestTime(config, shifts[k], <<committed>>)
           <=> violatesRestTime(config, committed, <<shifts[k]>>))

(***************************************************************************)
(* C21 - the hour cap of the period                                        *)
(***************************************************************************)
\* committed hours plus the candidate's hours exceed the period's cap: the
\* weekly cap in weekly generation, the weekly cap x 4.33 in monthly
\* generation (compared in hundredths of an hour)
ExceedsPeriodCap(shift, committed) ==
  LET hours == calculateWeeklyHours(committed) + getShiftHours(shift.type)
  IN IF viewMode = "weekly"
     THEN 100 * hours > 100 * config.maxHoursPerWeek
     ELSE 100 * hours > 433 * config.maxHoursPerWeek

HourVerdictsAgree ==
  \A k \in DOMAIN shifts : \A id \in ActiveIds :
    LET committed == AssignmentsOf(assignments, shifts, id)
    IN violatesMaxHours(config, shifts[k], committed)
         <=> ExceedsPeriodCap(shifts[k], committed)

\* C21: violatesMaxHours returns true exactly when the staff member's
\* already-committed hours plus the candidate shift's hours exceed the
\* period's cap: maxHoursPerWeek in weekly generation, and the pro-rated
\* monthly cap maxHoursPerWeek x 4.33 in monthly generation.
C21_HourCapOfThePeriod ==
  Generating => HourVerdictsAgree

\* C21 in weekly generation alone: there the verdict is the weekly cap's
C21_HoldsInWeeklyRuns ==
  (Generating /\ viewMode = "weekly") => HourVerdictsAgree

(***************************************************************************)
(* C22 - constraint violations are penalties                               *)
(***************************************************************************)
\* the committed shifts of the roster member at position i
CommittedOf(i) == AssignmentsOf(assignments, shifts, staff[i].id)

\* 10 for a consecutive-days violation, 15 for a rest-time violation and 20
\* for an hour-cap violation, summed
StatedPenalty(i, k) ==
  (IF violatesMaxConsecutive(config, shifts[k], CommittedOf(i)) THEN 10 ELSE 0)
  + (IF violatesRestTime(config, shifts[k], CommittedOf(i)) THEN 15 ELSE 0)
  + (IF violatesMaxHours(config, shifts[k], CommittedOf(i)) THEN 20 ELSE 0)

\* the score of member i for shift k before the constraint penalties, in the
\* scale of FillScore
ScoreBeforePenalties(i, k) ==
  IF viewMode = "weekly"
  THEN WeeklyScoreBeforePenalties(staff, config, staff[i], shifts[k],
                                  CommittedOf(i))
  ELSE MonthlyScoreBeforePenalties(staff, config, staff[i], shifts[k],
                                   CommittedOf(i), shifts)

\* FillScore carries a weekly score times the number of active staff and a
\* monthly score times 2: the penalty times 1.0, and times 0.5, in that scale
ScaledPenalty(i, k) ==
  IF viewMode = "weekly"
  THEN Max2(ActiveCount(staff), 1) * StatedPenalty(i, k)
  ELSE StatedPenalty(i, k)

\* C22: constraint violations are penalties, never rejections: a candidate's
\* score is lowered by exactly 10 for a consecutive-days violation, 15 for a
\* rest-time violation and 20 for an hour-cap violation (summed), multiplied
\* by 1.0 in weekly generation and by 0.5 in monthly generation, and a
\* candidate with any combination of violations remains in the candidate pool.
C22_ViolationsArePenalties ==
  pc = "primary" =>
    LET k == sortedShifts[pos]
    IN /\ \A i \in ActivePositions :
            FillScore(i, k) = ScoreBeforePenalties(i, k) - ScaledPenalty(i, k)
       /\ Range(allActiveCandidates(staff, shifts[k])) = ActivePositions

\* a shift is reached for which one member violates all three constraints
\* and another member none, both being candidates
C22_AllThreeViolatedWitness ==
  /\ pc = "primary"
  /\ LET k == sortedShifts[pos]
         pool == Range(allActiveCandidates(staff, shifts[k]))
     IN /\ \E i \in pool : StatedPenalty(i, k) = 45
        /\ \E i \in pool : StatedPenalty(i, k) = 0

(***************************************************************************)
(* C23 - the holiday penalty                                               *)
(***************************************************************************)
\* the calendar date a shift of the run lies on: in weekly generation the
\* day of the shown week, in monthly generation the date of the month the
\* factory made the shift for (the one of its date string and the following
\* day that falls on the shift's day of the week)
TrueDateOf(shift) ==
  IF "date" \in DOMAIN shift
  THEN IF CalendarDayName(shift.date) = shift.day THEN shift.date
       ELSE shift.date + 1
  ELSE LocalDay(weekStartDateOf(current, tz), tz) + DayIndex(shift.day)

\* an otherwise identical staff member without holiday requests
WithoutHolidays(s) == [s EXCEPT !.preferences.holidays = {}]

\* the score member i would have for shift k without holiday requests
ScoreWithoutHolidays(i, k) ==
  IF viewMode = "weekly"
  THEN calculateStaffScore(staff, config, WithoutHolidays(staff[i]), shifts[k],
                           CommittedOf(i))
  ELSE calculateMonthlyStaffScore(staff, config, WithoutHolidays(staff[i]),
                                  shifts[k], CommittedOf(i), shifts)

\* 30 in the scale of FillScore
ThirtyScaled ==
  IF viewMode = "weekly" THEN Max2(ActiveCount(staff), 1) * 30 ELSE 2 * 30

HolidayPenaltyByDate ==
  pc = "primary" =>
    LET k == sortedShifts[pos]
    IN \A i \in ActivePositions :
         FillScore(i, k) =
           ScoreWithoutHolidays(i, k)
           - (IF TrueDateOf(shifts[k]) \in staff[i].preferences.holidays
              THEN ThirtyScaled ELSE 0)

\* C23: in both weekly and monthly generation, a candidate's score is lowered
\* by 30 if and only if the calendar date of the shift being filled is in
\* that staff member's holiday-request set; a holiday on any other date has
\* no effect on the score for this shift.
C23_HolidayPenaltyByDate == HolidayPenaltyByDate

\* C23 in monthly generation in a browser whose zone is UTC: there it holds
C23_HoldsInMonthlyRunsInUTC ==
  (viewMode = "monthly" /\ tz = 0) => HolidayPenaltyByDate

(***************************************************************************)
(* C24 - the workload-balancing term                                       *)
(***************************************************************************)
\* the workload term of member i's score, in points
WorkloadTermOf(i) ==
  IF viewMode = "weekly" THEN WeeklyWorkloadTerm(staff[i], CommittedOf(i))
  ELSE MonthlyWorkloadTerm(staff[i], CommittedOf(i))

\* committed hours and the desired-hours target scaled to the period, both in
\* hundredths of an hour: the weekly target, and 4.33 times it for a month
CommittedHundredths(i) == 100 * calculateWeeklyHours(CommittedOf(i))

TargetHundredths(i) ==
  IF viewMode = "weekly" THEN 100 * staff[i].preferences.desiredHoursPerWeek
  ELSE 433 * staff[i].preferences.desiredHoursPerWeek

\* the term is a bonus of at most b under target, a penalty of at most p over
\* target and 0 on target
WorkloadTermWithin(i, b, p) ==
  /\ CommittedHundredths(i) < TargetHundredths(i) =>
       (0 < WorkloadTermOf(i) /\ WorkloadTermOf(i) <= b)
  /\ CommittedHundredths(i) > TargetHundredths(i) =>
       (-p <= WorkloadTermOf(i) /\ WorkloadTermOf(i) <= 0)
  /\ CommittedHundredths(i) = TargetHundredths(i) => WorkloadTermOf(i) = 0

\* C24: in both weekly and monthly scoring, the term comparing a staff
\* member's committed hours with their desired-hours target (scaled to the
\* period) is a bonus of at most 20 when they are under target, a penalty of
\* at most 10 when they are over target, and 0 when exactly on target.
C24_WorkloadTermCapped ==
  pc = "primary" => \A i \in ActivePositions : WorkloadTermWithin(i, 20, 10)

\* C24, amended: the weekly term is a bonus of at most 20 (2 per missing hour)
\* under target, a penalty of at most 10 (1 per hour) over target and 0 on
\* target; the monthly term is +25 below 80% of the target, +15 from there up
\* to the target, 0 from the target to 120% of it and -15 above: a bonus of at
\* most 25 under target and a penalty of at most 15 over target.
C24_WorkloadTermByMode ==
  pc = "primary" =>
    \A i \in ActivePositions :
      LET h == CommittedHundredths(i)
          t == TargetHundredths(i)
          term == WorkloadTermOf(i)
      IN /\ viewMode = "weekly" =>
              /\ WorkloadTermWithin(i, 20, 10)
              /\ h < t => (100 * term = 2 * (t - h) \/ term = 20)
              /\ h > t => (100 * term = -(h - t) \/ term = -10)
         /\ viewMode = "monthly" =>
              /\ WorkloadTermWithin(i, 25, 15)
              /\ term = (IF 10 * h < 8 * t THEN 25
                         ELSE IF h < t THEN 15
                         ELSE IF 10 * h > 12 * t THEN -15
                         ELSE 0)

\* a monthly shift is reached with one member far under target and another
\* more than 20% over it
C24_MonthlyTiersWitness ==
  /\ pc = "primary"
  /\ viewMode = "monthly"
  /\ \E i \in ActivePositions : WorkloadTermOf(i) = 25
  /\ \E i \in ActivePositions : WorkloadTermOf(i) = -15

(***************************************************************************)
(* C25 - the distribution term                                             *)
(***************************************************************************)
\* the distribution term of member i's score, times the number of active
\* staff (at least 1)
DistributionTermTimesActive(i) ==
  IF viewMode = "weekly"
  THEN WeeklyDistributionTermN(staff, CommittedOf(i))
  ELSE Max2(ActiveCount(staff), 1)
       * MonthlyDistributionTerm(staff, CommittedOf(i), shifts)

\* the member's committed shift count against the mean number of shifts per
\* active staff member of the run: count x active staff against the number
\* of generated shifts
BelowMean(i) == Len(CommittedOf(i)) * Max2(ActiveCount(staff), 1) < Len(shifts)

AboveMean(i) == Len(CommittedOf(i)) * Max2(ActiveCount(staff), 1) > Len(shifts)

\* C25: in both weekly and monthly scoring, the staff member's committed shift
\* count is compared with the mean number of shifts per active staff member
\* for the period actually being generated (number of generated shifts /
\* number of active staff); a staff member below the mean gets a bonus of at
\* most 15 and one above the mean gets a penalty of at most 10.
C25_DistributionAgainstActualMean ==
  pc = "primary" =>
    \A i \in ActivePositions :
      LET n == Max2(ActiveCount(staff), 1)
          term == DistributionTermTimesActive(i)
      IN /\ BelowMean(i) => (0 <= term /\ term <= 15 * n)
         /\ AboveMean(i) => (-10 * n <= term /\ term <= 0)

\* the caps alone, in weekly scoring: the term lies between -10 and 15
C25_WeeklyTermWithinCaps ==
  (pc = "primary" /\ viewMode = "weekly") =>
    \A i \in ActivePositions :
      LET n == Max2(ActiveCount(staff), 1)
          term == DistributionTermTimesActive(i)
      IN -10 * n <= term /\ term <= 15 * n

(***************************************************************************)
(* C26 - the capped preference penalties                                   *)
(***************************************************************************)
\* the member without preferred days off, otherwise identical
WithoutDaysOff(s) == [s EXCEPT !.preferences.preferredDaysOff = <<>>]

\* the member without stated shift preferences, otherwise identical
WithoutShiftPreference(s) == [s EXCEPT !.preferences.preferredShifts = <<>>]

\* the score of a member s, placed where member i stands, for shift k
ScoreAs(s, i, k) ==
  IF viewMode = "weekly"
  THEN calculateStaffScore(staff, config, s, shifts[k], CommittedOf(i))
  ELSE calculateMonthlyStaffScore(staff, config, s, shifts[k], CommittedOf(i),
                                  shifts)

\* one point in the scale of FillScore
OneScaled == IF viewMode = "weekly" THEN Max2(ActiveCount(staff), 1) ELSE 2

\* the shift's day is among member i's preferred days off
OnPreferredDayOff(i, k) ==
  shifts[k].day \in Range(staff[i].preferences.preferredDaysOff)

\* member i has stated shift preferences and they exclude the shift's kind
KindExcluded(i, k) ==
  /\ staff[i].preferences.preferredShifts # <<>>
  /\ shifts[k].type \notin Range(staff[i].preferences.preferredShifts)

DayOffPenaltyCapped(i, k) ==
  OnPreferredDayOff(i, k) =>
    LET other == ScoreAs(WithoutDaysOff(staff[i]), i, k)
    IN FillScore(i, k) <= other /\ FillScore(i, k) >= other - 5 * OneScaled

KindPenaltyCapped(i, k) ==
  KindExcluded(i, k) =>
    LET other == ScoreAs(WithoutShiftPreference(staff[i]), i, k)
    IN FillScore(i, k) <= other /\ FillScore(i, k) >= other - 3 * OneScaled

\* C26: for every weight table, in weekly and monthly scoring, a staff member
\* for whom the shift's day is among their preferred days off scores no
\* higher than, and at most 5 points lower than, an otherwise identical staff
\* member without that preferred day off; and a staff member who has stated
\* shift preferences that do not include the shift's kind scores no higher
\* than, and at most 3 points lower than, an otherwise identical staff member
\* with no stated shift preference.
C26_PreferencePenaltiesCapped ==
  pc = "primary" =>
    LET k == sortedShifts[pos]
    IN \A i \in ActivePositions :
         DayOffPenaltyCapped(i, k) /\ KindPenaltyCapped(i, k)

\* C26 under weight tables whose two penalty weights are not positive
C26_HoldsForNonPositiveWeights ==
  (/\ pc = "primary"
   /\ config.weights.preferredDayOff <= 0
   /\ config.weights.nonPreferredShift <= 0) =>
    LET k == sortedShifts[pos]
    IN \A i \in ActivePositions :
         DayOffPenaltyCapped(i, k) /\ KindPenaltyCapped(i, k)

(***************************************************************************)
(* The legacy scheduler: SimpleScheduler of lib/scheduler.ts               *)
(***************************************************************************)
\* the constructor's default constraints
LegacyDefaultConstraints ==
  [maxConsecutiveShifts |-> 3, minRestHoursBetweenShifts |-> 12,
   maxHoursPerWeek |-> 48, requireSkillMatch |-> TRUE,
   minimumSkillsRequired |-> FALSE,
   weights |-> [preferredShift |-> 30, nonPreferredShift |-> -10,
                preferredDayOff |-> -20, matchingSkill |-> 15,
                noMatchingSkill |-> -15, needsMoreHours |-> 5]]

\* customConstraints: the default, and one consecutive day at most
LegacyConstraints ==
  {LegacyDefaultConstraints,
   [LegacyDefaultConstraints EXCEPT !.maxConsecutiveShifts = 1]}

\* this.staff = staff.filter(s => s.isActive)
RECURSIVE ActiveOnly(_)
ActiveOnly(roster) ==
  IF roster = <<>> THEN <<>>
  ELSE IF Head(roster).isActive
       THEN <<Head(roster)>> \o ActiveOnly(Tail(roster))
       ELSE ActiveOnly(Tail(roster))

\* the templates of the week of Monday 2024-02-05; the id of a template ends
\* in the instant of its date
LegacyDays == <<"monday", "tuesday", "wednesday", "thursday">>

LegacyTemplate(day, type, skills, mn, mx) ==
  [id |-> <<day, type, (MonthFirstDay(3) + 4 + DayIndex(day)) * 24>>,
   day |-> day, type |-> type, requiredSkills |-> skills,
   minimumStaff |-> mn, maximumStaff |-> mx, assignedStaff |-> <<>>]

\* what a day contributes to the templates: nothing, a morning shift for one,
\* a morning shift asking for the skill "rn", or a morning shift for two
LegacyDayChoices(day) ==
  {<<>>,
   <<LegacyTemplate(day, "morning", <<>>, 1, 1)>>,
   <<LegacyTemplate(day, "morning", <<"rn">>, 1, 1)>>,
   <<LegacyTemplate(day, "morning", <<>>, 2, 2)>>}
  \cup
  (IF day = "monday"
   THEN {<<LegacyTemplate(day, "morning", <<>>, 1, 1),
           LegacyTemplate(day, "night", <<>>, 1, 1)>>}
   ELSE {})

RECURSIVE LegacyTemplatesFrom(_)
LegacyTemplatesFrom(i) ==
  IF i > Len(LegacyDays) THEN {<<>>}
  ELSE {here \o rest : here \in LegacyDayChoices(LegacyDays[i]),
                       rest \in LegacyTemplatesFrom(i + 1)}

LegacyInputs ==
  [staff : RostersOf(2), constraints : LegacyConstraints,
   shiftTemplates : LegacyTemplatesFrom(1)]

\* getShiftDate: the date of the instant in the shift's id
SimpleScheduler_getShiftDate(shift) == formatDate(shift.id[3])

\* calculateShiftHours
SimpleScheduler_calculateShiftHours(shift) ==
  CASE shift.type = "morning" -> 8
    [] shift.type = "afternoon" -> 8
    [] shift.type = "night" -> 8
    [] OTHER -> 8

RECURSIVE SimpleScheduler_calculateWeeklyHours(_)
SimpleScheduler_calculateWeeklyHours(currentAssignments) ==
  IF currentAssignments = <<>> THEN 0
  ELSE SimpleScheduler_calculateShiftHours(Head(currentAssignments))
       + SimpleScheduler_calculateWeeklyHours(Tail(currentAssignments))

SimpleScheduler_getShiftStartHour(shiftType) ==
  CASE shiftType = "morning" -> 7
    [] shiftType = "afternoon" -> 15
    [] shiftType = "night" -> 23

SimpleScheduler_getShiftEndHour(shiftType) ==
  CASE shiftType = "morning" -> 15
    [] shiftType = "afternoon" -> 23
    [] shiftType = "night" -> 7

\* violatesRestTime: only shifts of the same day are compared
SimpleScheduler_violatesRestTime(shift, currentAssignments) ==
  \E k \in DOMAIN currentAssignments :
    /\ currentAssignments[k].day = shift.day
    /\ Abs(SimpleScheduler_getShiftStartHour(shift.type)
           - SimpleScheduler_getShiftEndHour(currentAssignments[k].type)) < 8

\* numbers sorted ascending (Array.prototype.sort((a, b) => a - b))
RECURSIVE InsertAscending(_, _)
InsertAscending(sorted, v) ==
  IF sorted = <<>> THEN <<v>>
  ELSE IF Head(sorted) <= v
       THEN <<Head(sorted)>> \o InsertAscending(Tail(sorted), v)
       ELSE <<v>> \o sorted

RECURSIVE SortAscending(_)
SortAscending(s) ==
  IF s = <<>> THEN <<>>
  ELSE InsertAscending(SortAscending(Tail(s)), Head(s))

\* the loop of violatesConsecutiveShifts from index i (1-based) with the
\* running count
RECURSIVE ConsecutiveLoop(_, _, _, _, _)
ConsecutiveLoop(workedDays, i, consecutiveCount, limit, currentShiftDay) ==
  IF i > Len(workedDays) THEN FALSE
  ELSE IF workedDays[i] = workedDays[i - 1] + 1
       THEN IF /\ consecutiveCount + 1 >= limit
               /\ currentShiftDay = workedDays[Len(workedDays)] + 1
            THEN TRUE
            ELSE ConsecutiveLoop(workedDays, i + 1, consecutiveCount + 1,
                                 limit, currentShiftDay)
       ELSE ConsecutiveLoop(workedDays, i + 1, 1, limit, currentShiftDay)

SimpleScheduler_violatesConsecutiveShifts(constraints, shift, currentAssignments) ==
  IF Len(currentAssignments) = 0 THEN FALSE
  ELSE LET workedDays ==
             SortAscending([k \in DOMAIN currentAssignments |->
                              DayIndex(currentAssignments[k].day)])
       IN ConsecutiveLoop(workedDays, 2, 1, constraints.maxConsecutiveShifts,
                          DayIndex(shift.day))

\* the filter of getAvailableStaff for one staff member
SimpleScheduler_isAvailable(constraints, s, shift, currentAssignments, strict) ==
  /\ SimpleScheduler_calculateWeeklyHours(currentAssignments)
       + SimpleScheduler_calculateShiftHours(shift)
     <= constraints.maxHoursPerWeek
  /\ ~SimpleScheduler_violatesRestTime(shift, currentAssignments)
  /\ ~SimpleScheduler_violatesConsecutiveShifts(constraints, shift,
                                                currentAssignments)
  /\ strict =>
       /\ ~Includes(s.preferences.preferredDaysOff, shift.day)
       /\ SimpleScheduler_getShiftDate(shift) \notin s.preferences.holidays
       /\ ~(/\ Len(s.preferences.preferredShifts) > 0
            /\ ~Includes(s.preferences.preferredShifts, shift.type))
       /\ ~(/\ constraints.requireSkillMatch
            /\ constraints.minimumSkillsRequired
            /\ Len(shift.requiredSkills) > 0
            /\ ~\E k \in DOMAIN shift.requiredSkills :
                  Includes(s.skills, shift.requiredSkills[k]))

\* getAvailableStaff: positions in this.staff, in roster order
RECURSIVE SimpleScheduler_getAvailableStaffFrom(_, _, _, _, _, _, _)
SimpleScheduler_getAvailableStaffFrom(roster, constraints, allShifts, shift, staffAssignments, strict, i) ==
  IF i > Len(roster) THEN <<>>
  ELSE LET rest ==
             SimpleScheduler_getAvailableStaffFrom(roster, constraints,
               allShifts, shift, staffAssignments, strict, i + 1)
       IN IF SimpleScheduler_isAvailable(constraints, roster[i], shift,
               AssignmentsOf(staffAssignments, allShifts, roster[i].id),
               strict)
          THEN <<i>> \o rest
          ELSE rest

SimpleScheduler_getAvailableStaff(roster, constraints, allShifts, shift, staffAssignments, strict) ==
  SimpleScheduler_getAvailableStaffFrom(roster, constraints, allShifts, shift,
                                        staffAssignments, strict, 1)

\* calculateStaffScore of the legacy scheduler; draw is the whole part of
\* Math.random() * 5
SimpleScheduler_calculateStaffScore(constraints, s, shift, draw) ==
  LET weights == constraints.weights
      matchingSkills ==
        Cardinality({k \in DOMAIN shift.requiredSkills :
                       Includes(s.skills, shift.requiredSkills[k])})
      score ==
        100
        + (IF Includes(s.preferences.preferredShifts, shift.type)
           THEN weights.preferredShift
           ELSE IF Len(s.preferences.preferredShifts) > 0
                THEN weights.nonPreferredShift ELSE 0)
        + (IF Includes(s.preferences.preferredDaysOff, shift.day)
           THEN weights.preferredDayOff ELSE 0)
        + (IF SimpleScheduler_getShiftDate(shift) \in s.preferences.holidays
           THEN weights.preferredDayOff * 3 ELSE 0)
        + matchingSkills * weights.matchingSkill
        + (IF Len(shift.requiredSkills) > 0 /\ matchingSkills = 0
           THEN weights.noMatchingSkill ELSE 0)
        + (IF s.preferences.desiredHoursPerWeek < 40
           THEN weights.needsMoreHours ELSE 0)
        + draw
  IN Max2(score, 10)

\* selectBestStaff: the ids of the best selectedCount available members
SimpleScheduler_selectBestStaff(roster, constraints, shift, availableStaff, draws) ==
  IF Len(availableStaff) = 0 THEN <<>>
  ELSE LET scores ==
             ArrayOf([k \in DOMAIN availableStaff |->
                        SimpleScheduler_calculateStaffScore(constraints,
                          roster[availableStaff[k]], shift,
                          draws[availableStaff[k]])])
           order == SortDesc(scores)
           selectedCount ==
             Min2(Len(availableStaff),
                  Min2(Max2(shift.minimumStaff, 1), shift.maximumStaff))
       IN [k \in 1..Max2(selectedCount, 0) |->
             roster[availableStaff[order[k]]].id]

\* the legacy run starts from the constructor's state; the templates wait in
\* shifts
LegacyInit ==
  /\ \E in \in LegacyInputs :
       /\ staff = ActiveOnly(in.staff)
       /\ config = in.constraints
       /\ shifts = in.shiftTemplates
  /\ tz = 0
  /\ viewMode = "weekly"
  /\ current = CurrentInstant(0)
  /\ pc = "idle"
  /\ sortedShifts = <<>>
  /\ pos = 0
  /\ assignedCount = 0
  /\ assignments = [id \in {} |-> <<>>]
  /\ schedule = {}
  /\ previous = {}
  /\ store = <<>>
  /\ now = 0
  /\ rng = 0
  /\ runs = 0
  /\ editsLeft = 0

\* generateSchedule up to and including the priority sort, which reorders
\* the copied array in place
LegacySort ==
  /\ pc = "idle"
  /\ LET keys == ArrayOf([k \in DOMAIN shifts |->
                            Len(shifts[k].requiredSkills)
                            + shifts[k].minimumStaff])
         order == SortDesc(keys)
     IN /\ shifts' = [k \in DOMAIN order |-> shifts[order[k]]]
        /\ sortedShifts' = [k \in DOMAIN order |-> k]
  /\ assignments' = [id \in {staff[i].id : i \in DOMAIN staff} |-> <<>>]
  /\ pos' = 1
  /\ pc' = IF Len(shifts) = 0 THEN "assemble" ELSE "assign"
  /\ runs' = runs + 1
  /\ UNCHANGED <<inputs, assignedCount, schedule, previous, store, now, rng,
                 editsLeft>>

LegacyCommit(selectedStaff, drawn) ==
  /\ shifts' = [shifts EXCEPT ![pos].assignedStaff = selectedStaff]
  /\ assignments' = PushAll(assignments, selectedStaff, pos)
  /\ assignedCount' = Len(selectedStaff)
  /\ rng' = rng + drawn
  /\ pos' = pos + 1
  /\ pc' = IF pos = Len(shifts) THEN "assemble" ELSE "assign"
  /\ UNCHANGED <<inputs, sortedShifts, schedule, previous, store, now, runs,
                 editsLeft>>

\* the whole part of Math.random() * 5 for each member: its least and its
\* greatest value
Draws == [DOMAIN staff -> {0, 4}]

\* the body of sortedShifts.forEach: the strict pass and, if it leaves the
\* shift understaffed, the relaxed pass
LegacyAssign ==
  /\ pc = "assign"
  /\ LET shift == shifts[pos]
         strictStaff ==
           SimpleScheduler_getAvailableStaff(staff, config, shifts, shift,
                                             assignments, TRUE)
         relaxedStaff ==
           SimpleScheduler_getAvailableStaff(staff, config, shifts, shift,
                                             assignments, FALSE)
     IN \E d1 \in Draws :
          LET first == SimpleScheduler_selectBestStaff(staff, config, shift,
                                                       strictStaff, d1)
          IN IF Len(first) < shift.minimumStaff
             THEN \E d2 \in Draws :
                    LegacyCommit(
                      SimpleScheduler_selectBestStaff(staff, config, shift,
                                                      relaxedStaff, d2),
                      Len(strictStaff) + Len(relaxedStaff))
             ELSE LegacyCommit(first, Len(strictStaff))

\* generateSchedule returns the Schedule
LegacyReturn ==
  /\ pc = "assemble"
  /\ schedule' = {[id |-> <<"schedule", now + 1>>,
                   weekStartDate |-> <<"date", MonthFirstDay(3) + 4>>,
                   monthStartDate |-> {},
                   scheduleType |-> "weekly",
                   shifts |-> shifts,
                   isPublished |-> FALSE,
                   createdAt |-> now + 1,
                   updatedAt |-> now + 1]}
  /\ now' = now + 1
  /\ pc' = "done"
  /\ UNCHANGED <<inputs, shifts, sortedShifts, pos, assignedCount,
                 assignments, previous, store, rng, runs, editsLeft>>

LegacyNext ==
  \/ LegacySort
  \/ LegacyAssign
  \/ LegacyReturn

SpecLegacy == LegacyInit /\ [][LegacyNext]_vars

(***************************************************************************)
(* C27 - legacy hard filtering of consecutive days                         *)
(***************************************************************************)
\* the days of the week (0-based) on which the schedule assigns the member
LegacyDaysOf(sched, id) ==
  {DayIndex(sched.shifts[k].day) :
     k \in {j \in DOMAIN sched.shifts :
              Includes(sched.shifts[j].assignedStaff, id)}}

\* the days d..d+n are all among the days
HasRunFrom(days, d, n) == \A e \in d..(d + n) : e \in days

\* C27: in any schedule produced by SimpleScheduler.generateSchedule (strict
\* first pass or relaxed second pass, shifts processed in priority order
\* rather than day order), no staff member is assigned shifts on more than
\* maxConsecutiveShifts consecutive days of the week.
C27_LegacyConsecutiveDaysBounded ==
  (pc = "done" /\ schedule # {}) =>
    \A i \in DOMAIN staff :
      LET days == LegacyDaysOf(TheSchedule, staff[i].id)
      IN ~\E d \in 0..6 : HasRunFrom(days, d, config.maxConsecutiveShifts)

\* C27 under the default limit of 3 when the templates arrive in an order
\* that the priority sort keeps: the schedule's shifts are in day order
C27_HoldsInDayOrderUnderDefault ==
  (/\ pc = "done" /\ schedule # {}
   /\ config.maxConsecutiveShifts = 3
   /\ \A a, b \in DOMAIN TheSchedule.shifts :
        a < b => DayIndex(TheSchedule.shifts[a].day)
                   <= DayIndex(TheSchedule.shifts[b].day)) =>
    \A i \in DOMAIN staff :
      LET days == LegacyDaysOf(TheSchedule, staff[i].id)
      IN ~\E d \in 0..6 : HasRunFrom(days, d, config.maxConsecutiveShifts)

(***************************************************************************)
(* C28 - the emergency-fill step appends nobody                            *)
(***************************************************************************)
\* every active member is among the assignees of shift k
AllActiveAssigned(k) ==
  \A i \in ActivePositions : Includes(shifts[k].assignedStaff, staff[i].id)

EmergencyAppendsNobody ==
  pc = "emergency" =>
    LET k == sortedShifts[pos]
    IN /\ assignedCount < shifts[k].minimumStaff =>
            \/ assignedCount >= shifts[k].maximumStaff
            \/ AllActiveAssigned(k)
       /\ shifts'[k].assignedStaff = shifts[k].assignedStaff

\* C28: in every weekly or monthly run, whenever primary fill ends with fewer
\* than minimumStaff assignees, either maximumStaff has already been reached
\* or every active staff member is already assigned to the shift, so the
\* shift's assignedStaff is the same before and after the emergency-fill step.
C28_EmergencyFillAppendsNobody == [][EmergencyAppendsNobody]_vars

\* the emergency-fill step has run on a shift that primary fill left below
\* its minimum although its maximum was not reached
C28_UnderstaffedAfterEmergencyWitness ==
  /\ pc \in {"primary", "assemble"}
  /\ pos > 1
  /\ LET k == sortedShifts[pos - 1]
     IN /\ Len(shifts[k].assignedStaff) < shifts[k].minimumStaff
        /\ Len(shifts[k].assignedStaff) < shifts[k].maximumStaff
        /\ ActiveCount(staff) > 0

(***************************************************************************)
(* The schedule store under all of its operations (ScheduleStorage)        *)
(***************************************************************************)
\* the first stored schedule with the week-start date: 0 when there is none
FirstWithWeekStart(schedules, weekStart) ==
  IF \E k \in DOMAIN schedules : schedules[k].weekStart = weekStart
  THEN CHOOSE k \in DOMAIN schedules :
         /\ schedules[k].weekStart = weekStart
         /\ \A j \in 1..(k - 1) : schedules[j].weekStart # weekStart
  ELSE 0

\* the first stored monthly schedule with the month-start date, or 0
FirstMonthlyWithMonthStart(schedules, monthStart) ==
  LET hit(k) == /\ schedules[k].monthStart = monthStart
                /\ schedules[k].scheduleType = "monthly"
  IN IF \E k \in DOMAIN schedules : hit(k)
     THEN CHOOSE k \in DOMAIN schedules :
            hit(k) /\ \A j \in 1..(k - 1) : ~hit(j)
     ELSE 0

RECURSIVE deleteSchedule(_, _)
deleteSchedule(schedules, weekStart) ==
  IF schedules = <<>> THEN <<>>
  ELSE IF Head(schedules).weekStart # weekStart
       THEN <<Head(schedules)>> \o deleteSchedule(Tail(schedules), weekStart)
       ELSE deleteSchedule(Tail(schedules), weekStart)

RECURSIVE deleteMonthlySchedule(_, _)
deleteMonthlySchedule(schedules, monthStart) ==
  IF schedules = <<>> THEN <<>>
  ELSE IF Head(schedules).monthStart # monthStart
       THEN <<Head(schedules)>>
            \o deleteMonthlySchedule(Tail(schedules), monthStart)
       ELSE deleteMonthlySchedule(Tail(schedules), monthStart)

\* schedule.isPublished = isPublished; schedule.updatedAt = new Date()
WithStatus(schedules, k, isPublished, clock) ==
  [schedules EXCEPT ![k].sched.isPublished = isPublished,
                    ![k].sched.updatedAt = clock]

\* the week-start dates and month-start dates the calls are made with:
\* the weeks of Monday 2024-01-01 and Monday 2024-02-05, the months January
\* and February 2024
StoreWeekStarts == {MonthFirstDay(2), MonthFirstDay(3) + 4}

StoreMonthStarts == {MonthFirstDay(2), MonthFirstDay(3)}

\* the schedule the page assembles for the week of Monday d, 10:00 UTC
StoreWeeklySchedule(d, clock) ==
  [id |-> <<"schedule", clock>>,
   weekStartDate |-> <<"instant", weekStartDateOf(d * 24 + 10, 0)>>,
   monthStartDate |-> {},
   scheduleType |-> "weekly",
   shifts |-> <<>>,
   isPublished |-> FALSE,
   createdAt |-> clock,
   updatedAt |-> clock]

\* the schedule the page assembles for the month starting on day d
StoreMonthlySchedule(d, clock) ==
  LET monthDate == monthStartDateOf(d * 24 + 10, 0)
  IN [id |-> <<"monthly-schedule", clock>>,
      weekStartDate |-> <<"date", formatDate(monthDate)>>,
      monthStartDate |-> {<<"date", formatDate(getMonthStart(monthDate, 0))>>},
      scheduleType |-> "monthly",
      shifts |-> <<>>,
      isPublished |-> FALSE,
      createdAt |-> clock,
      updatedAt |-> clock]

\* an empty store; pc names the call served last
StoreInit ==
  /\ staff = <<>>
  /\ config = MakeConfig(DefaultGlobal, ClosedPolicy, ClosedPolicy, AllDays)
  /\ tz = 0
  /\ viewMode = "weekly"
  /\ current = CurrentInstant(0)
  /\ pc = "idle"
  /\ shifts = <<>>
  /\ sortedShifts = <<>>
  /\ pos = 0
  /\ assignedCount = 0
  /\ assignments = [id \in {} |-> <<>>]
  /\ schedule = {}
  /\ previous = {}
  /\ store = <<>>
  /\ now = 0
  /\ rng = 0
  /\ runs = 0
  /\ editsLeft = MaxStoreOps

StoreFrame ==
  UNCHANGED <<inputs, shifts, sortedShifts, pos, assignedCount, assignments,
              previous, rng>>

StoreSave(sched, call) ==
  /\ runs < MaxSaves
  /\ runs' = runs + 1
  /\ now' = now + 1
  /\ schedule' = {sched}
  /\ store' = saveSchedule(store, sched)
  /\ pc' = call
  /\ UNCHANGED editsLeft
  /\ StoreFrame

StoreSaveWeekly ==
  \E d \in StoreWeekStarts :
    StoreSave(StoreWeeklySchedule(d, now + 1), "saveSchedule weekly")

StoreSaveMonthly ==
  \E d \in StoreMonthStarts :
    StoreSave(StoreMonthlySchedule(d, now + 1), "saveSchedule monthly")

StoreCall(call) ==
  /\ editsLeft > 0
  /\ editsLeft' = editsLeft - 1
  /\ pc' = call
  /\ UNCHANGED <<schedule, runs>>
  /\ StoreFrame

StoreDeleteSchedule ==
  /\ StoreCall("deleteSchedule")
  /\ \E weekStart \in StoreWeekStarts :
       store' = deleteSchedule(getAllSchedules(store), weekStart)
  /\ UNCHANGED now

StoreDeleteMonthlySchedule ==
  /\ StoreCall("deleteMonthlySchedule")
  /\ \E monthStart \in StoreMonthStarts :
       store' = deleteMonthlySchedule(getAllSchedules(store), {monthStart})
  /\ UNCHANGED now

StoreUpdateScheduleStatus ==
  /\ StoreCall("updateScheduleStatus")
  /\ \E weekStart \in StoreWeekStarts, isPublished \in BOOLEAN :
       LET schedules == getAllSchedules(store)
           k == FirstWithWeekStart(schedules, weekStart)
       IN IF k = 0 THEN UNCHANGED <<store, now>>
          ELSE /\ store' = WithStatus(schedules, k, isPublished, now + 1)
               /\ now' = now + 1

StoreUpdateMonthlyScheduleStatus ==
  /\ StoreCall("updateMonthlyScheduleStatus")
  /\ \E monthStart \in StoreMonthStarts, isPublished \in BOOLEAN :
       LET schedules == getAllSchedules(store)
           k == FirstMonthlyWithMonthStart(schedules, {monthStart})
       IN IF k = 0 THEN UNCHANGED <<store, now>>
          ELSE /\ store' = WithStatus(schedules, k, isPublished, now + 1)
               /\ now' = now + 1

StoreNext ==
  \/ StoreSaveWeekly
  \/ StoreSaveMonthly
  \/ StoreDeleteSchedule
  \/ StoreDeleteMonthlySchedule
  \/ StoreUpdateScheduleStatus
  \/ StoreUpdateMonthlyScheduleStatus

SpecStore == StoreInit /\ [][StoreNext]_vars

(***************************************************************************)
(* C29 - one schedule per period, the one saved last                       *)
(***************************************************************************)
\* the period of a stored schedule: its kind with its month-start date, or
\* with its week-start date when it is a weekly one
PeriodOf(st) ==
  IF st.scheduleType = "monthly"
  THEN <<"monthly", st.monthStart>>
  ELSE <<"weekly", st.weekStart>>

StoreHoldsOnePerPeriod ==
  \A a, b \in DOMAIN store :
    PeriodOf(store[a]) = PeriodOf(store[b]) => a = b

\* a call was a save: the page's schedule is the one created at this instant
SavedNow == schedule' # {} /\ (CHOOSE s \in schedule' : TRUE).createdAt = now'
            /\ now' # now /\ runs' # runs

\* after a save the store holds the saved schedule for its period; after any
\* call, a schedule held for a period was held for it before the call or is
\* the one just saved
HeldIsSavedLast ==
  /\ SavedNow =>
       \E k \in DOMAIN store' :
         store'[k].sched = (CHOOSE s \in schedule' : TRUE)
  /\ \A k \in DOMAIN store' :
       \/ \E j \in DOMAIN store :
            /\ store[j].sched.id = store'[k].sched.id
            /\ PeriodOf(store[j]) = PeriodOf(store'[k])
       \/ SavedNow /\ store'[k].sched = (CHOOSE s \in schedule' : TRUE)

\* C29: after any sequence of saveSchedule, deleteSchedule,
\* deleteMonthlySchedule, updateScheduleStatus and updateMonthlyScheduleStatus
\* calls starting from an empty store, the store holds at most one weekly
\* schedule per week-start date and at most one monthly schedule per
\* month-start date, and the schedule held for a period is the one most
\* recently saved for it.
C29_OnePerPeriodSavedLast ==
  []StoreHoldsOnePerPeriod /\ [][HeldIsSavedLast]_vars

\* three saves and no other call have left one weekly and one monthly
\* schedule of periods that do not share a date: a save replaced the schedule
\* of its own period
C29_ReplacedWitness ==
  /\ runs = 3
  /\ editsLeft = MaxStoreOps
  /\ Len(store) = 2
  /\ \E a, b \in DOMAIN store :
       /\ store[a].scheduleType = "weekly"
       /\ store[a].weekStart = MonthFirstDay(3) + 4
       /\ store[b].scheduleType = "monthly"
       /\ store[b].monthStart = {MonthFirstDay(3)}

(***************************************************************************)
(* C30 - weekly operations and the stored monthly schedules                *)
(***************************************************************************)
\* the call served by the step is one of the weekly operations
WeeklyOperation ==
  pc' \in {"saveSchedule weekly", "deleteSchedule", "updateScheduleStatus"}

\* the stored monthly schedule at position k is still stored after the step,
\* with the same isPublished flag
MonthlyKept(k) ==
  \E j \in DOMAIN store' :
    /\ store'[j].sched.id = store[k].sched.id
    /\ store'[j].scheduleType = "monthly"
    /\ store'[j].sched.isPublished = store[k].sched.isPublished

MonthlySchedulesUntouched ==
  WeeklyOperation =>
    \A k \in DOMAIN store :
      store[k].scheduleType = "monthly" => MonthlyKept(k)

\* C30: saving a weekly schedule, deleteSchedule(weekStart) and
\* updateScheduleStatus(weekStart, flag) never remove a stored monthly
\* schedule and never change its isPublished flag, including when the monthly
\* schedule's weekStart field equals that week-start date (a month whose
\* first day is the week's Monday).
C30_WeeklyOperationsLeaveMonthlyUntouched == [][MonthlySchedulesUntouched]_vars

\* C30 for the monthly schedules whose weekStart field is not the week-start
\* date of any week
C30_HoldsForOtherMonths ==
  [][WeeklyOperation =>
       \A k \in DOMAIN store :
         (/\ store[k].scheduleType = "monthly"
          /\ store[k].weekStart \notin StoreWeekStarts) => MonthlyKept(k)]_vars

====
